---- MODULE Spec2Model ----
(***************************************************************************)
(* loads-broker: the Fleet Pool (loadsbroker/aws.py, EC2Pool) and the Run  *)
(* Manager life cycle (loadsbroker/broker.py, RunManager) with the HTTP    *)
(* handlers that touch a Run (loadsbroker/webapp/api.py).                  *)
(*                                                                         *)
(* The specifications of the module:                                       *)
(*   SpecPool  the pool: broker start (recovery), request_instances,       *)
(*             release_instances, and the IaaS (instance states, time);    *)
(*   SpecReap  one pool process that is also asked to reap;                *)
(*   SpecFail  one pool process whose requests can fail in the IaaS;       *)
(*   Spec      one Run driven by RunManager.start(), with abort and        *)
(*             DELETE /api/run/{id} requests arriving at any yield point;  *)
(*   SpecSteps one Run with its clock, its Step Records and its DNS map:   *)
(*             the scheduling passes of _check_steps, wait by wait;        *)
(*   FairSteps SpecSteps where the manager and the clock keep going;       *)
(*   SpecDone  SpecSteps with docker.is_running answered instance by       *)
(*             instance;                                                   *)
(*   SpecColl  one EC2Collection (loadsbroker/aws.py) from                 *)
(*             wait_for_running to the end of _stop_step, with the docker  *)
(*             fan-outs (loadsbroker/extensions.py) that work on it;       *)
(*   SpecTag   request_instances tagging the instances it hands out;       *)
(*   SpecConn  the coroutines of the pool that call _region_conn.          *)
(***************************************************************************)
EXTENDS Integers, Sequences, FiniteSets, TLC

VARIABLES
    \* ---- IaaS ----
    fleet,          \* the instances of the IaaS, by id 1..Len(fleet)
    events,         \* the IaaS events so far (state changes, minutes)
    \* ---- EC2Pool ----
    use_filters,    \* EC2Pool.use_filters
    _instances,     \* EC2Pool._instances: region -> free list (ids, in order)
    _recovered,     \* EC2Pool._recovered: (run_id, uuid) -> ids; <<>> = no key
    collections,    \* the EC2Collections handed out and not yet returned
    last,           \* the pool's last call: "request", "recovered" (a
                    \* request with allocate_missing = false), "raised" (a
                    \* request that raised), "release", "reap", "start",
                    \* "restart" (a start
                    \* that follows a start with nothing but time passing
                    \* in between), "changed" (a start, and an instance has
                    \* changed state since)
    released,       \* the instances of the collection last released, while
                    \* last = "release"
    \* ---- RunManager / Run / handlers ----
    pc,             \* where RunManager.start() stands (its yield points)
    state,          \* Run.state: the Run row, and the manager's object of it
    run_exists,     \* the Run row exists (created, and not purged)
    abort,          \* RunManager.abort
    aborted,        \* Run.aborted
    links,          \* per step: started, finished of the link's collection
    _set_links,     \* RunManager._set_links: the steps that are linked
    raised,         \* the try of start() has raised
    in_runs,        \* the manager is registered in Broker._runs
    handler_state,  \* Run.state on the object of the last DELETE handler's
                    \* own session, -1 = none
    http,           \* status of the last DELETE answer, 0 = none
    seen,           \* kept for the properties: running_abort = the abort
                    \* flag was set while the Run was Running, late_pass =
                    \* a scheduling pass began with the flag set,
                    \* loop_abort = the run loop was left on the flag,
                    \* early_abort = the flag was set before the first
                    \* scheduling pass
    \* ---- the Run's clock, Step Records and DNS map (SpecSteps) ----
    now,            \* datetime.utcnow(), in poll intervals
    plan,           \* run.plan.steps: run_delay, run_max_time, dns_name
    run,            \* Run.started_at, Run.completed_at
    step_record,    \* per step: started_at, completed_at, failed
    local_dns,      \* per step: ec2_collection.local_dns
    _dns_map,       \* RunManager._dns_map: name -> the step whose
                    \* instances' addresses it holds, "" = no entry
    requests,       \* per step: the pool's answer to request_instances
    held,           \* steps whose collection the pool has handed to the
                    \* Run and has not got back
    pass_dones,     \* _check_steps: the steps found done in this pass
    pass_starts,    \* _check_steps: the steps still to start in this pass
    calls,          \* kept for the properties: how a step's _start_step
                    \* and _stop_step ended, by whom it was stopped, and
                    \* whether should_stop() held when it was found done
    resolver,       \* kept for the properties: the names in the map that
                    \* a step's dns.start was given
    start_order,    \* kept for the properties: the steps in start order
    slow,           \* kept for the properties: the clock has moved while
                    \* _check_steps waited for a helper
    \* ---- one EC2Collection and the coroutines that work on it ----
    coll_instances, \* collection.instances: the instance ids, in order
    inst_state,     \* per instance: instance.state as boto last read it
    nonresponsive,  \* instances whose state.nonresponsive is set
    coll,           \* the collection's finished and local_dns
    cpc,            \* where the manager is with this collection
    polls,          \* wait_for_running: waits of `interval` so far
    ready,          \* the io loop's callbacks that are ready, first first
    removals,       \* the remove_instances calls made: subset, stage
    iaas,           \* the ids create_tags cleared, terminate_instances ended
    trace,          \* kept for the properties: the helper calls, in order,
                    \* with how each ended
    setup_seen,     \* kept for the properties: the instances that
                    \* docker.setup_collection went over
    \* ---- request_instances tagging the instances it hands out ----
    tagging,        \* per instance: where its tag_instance is, its
                    \* retries, and for the properties the create_tags
                    \* calls made and the seconds waited
    tagged,         \* how gen.multi over the tag_instance calls ended
    \* ---- the pool's connections ----
    _conns,         \* pool._conns: per region the connection kept, 0 = none
    connected,      \* per region: the connections connect_to_region made
    conn_calls      \* per caller of _region_conn: where it is, its region
                    \* and the connection it got

poolvars == <<fleet, events, use_filters, _instances, _recovered, collections,
              last, released>>
runvars == <<pc, state, run_exists, abort, aborted, links, _set_links, raised,
             in_runs, handler_state, http, seen>>
stepvars == <<now, plan, run, step_record, local_dns, _dns_map, requests,
              held, pass_dones, pass_starts, calls, resolver, start_order,
              slow>>
collvars == <<coll_instances, inst_state, nonresponsive, coll, cpc, polls, ready,
              removals, iaas, trace, setup_seen>>
tagvars == <<tagging, tagged>>
connvars == <<_conns, connected, conn_calls>>
vars == <<poolvars, runvars, stepvars, collvars, tagvars, connvars>>

(***************************************************************************)
(* Bounds of the model.                                                    *)
(***************************************************************************)
MaxInstances == 2       \* instances the IaaS ever holds
MaxCount == 2           \* largest count asked of request_instances
MaxEvents == 2          \* IaaS events (state changes, minutes) in a behaviour
MaxTime == 3            \* the clock of a Run stops here
MaxDelay == 2           \* largest run_delay of a step
MaxRunTime == 1         \* largest run_max_time of a step
MaxSize == 3            \* instances of the collection of SpecColl
MaxPolls == 2           \* waits of wait_for_running before its timeout
MaxCallers == 2         \* coroutines of SpecConn that call _region_conn

(***************************************************************************)
(* Program constants.                                                      *)
(***************************************************************************)
INITIALIZING == 0
RUNNING == 1
TERMINATING == 2
COMPLETED == 3
PendingMinutes == 2     \* available_instance: timedelta(minutes=2)
sleep_time == 1         \* RunManager.sleep_time: one poll interval
None == -1              \* a DateTime column that is not set
MaxRetries == 5         \* tag_instance: if retries > 5: raise
TagWait == 1            \* tag_instance: add_timeout, time.time() + 1

AWS_REGIONS == <<"eu-west-1", "us-east-1", "us-west-1", "us-west-2">>
Regions == {AWS_REGIONS[k] : k \in 1..Len(AWS_REGIONS)}

RunIds == {"r1"}
Uuids == {"s1", "s2"}               \* step uuids
Keys == RunIds \X Uuids
States == {"pending", "running", "stopped", "terminated"}

\* The steps of the plan: RunManager._get_steps asks for a step's instances
\* with the step's own instance_region and instance_type.
instance_region(uuid) == "us-west-2"
instance_type(uuid) == IF uuid = "s2" THEN "m1.small" ELSE "t1.micro"

Ids == 1..Len(fleet)
Range(s) == {s[k] : k \in 1..Len(s)}

(***************************************************************************)
(* IaaS instances.  An instance is a record                                *)
(*   region, itype, state,                                                 *)
(*   age: the minutes since launch_time, datetime.today() - launch_time,   *)
(*        counted while the instance is pending and up to PendingMinutes   *)
(*        (the code reads launch_time of pending instances only, and only  *)
(*        to compare the age with 2 minutes),                              *)
(*   run, uuid: its RunId and Uuid tags; "" stands for a tag that is       *)
(*        absent or empty, which the code never tells apart (it tests      *)
(*        tags.get(..) for truth).                                         *)
(* Every instance the model's pools create under use_filters carries the   *)
(* Name and Project tags, and a pool that filters is never started over    *)
(* instances made by one that does not (BrokerStart), so the tag filter of *)
(* _recover_region never leaves an instance out.                           *)
(***************************************************************************)
\* Variant: only running instances are available.
RunningOnly(instance) == instance.state = "running"

available_instance(instance) ==
    \/ instance.state = "running"
    \/ /\ instance.state = "pending"
       \* oldest < launched, oldest = today - 2 minutes
       /\ instance.age < PendingMinutes

\* tags.get("RunId") and tags.get("Uuid")
allocated(instance) == instance.run # "" /\ instance.uuid # ""

\* conn.get_only_instances(filters): the region's instances.
_recover_region(region) ==
    SelectSeq([k \in 1..Len(fleet) |-> k], LAMBDA i : fleet[i].region = region)

\* gen.multi([self._recover_region(x) for x in AWS_REGIONS]), flattened in
\* the order the loop of _recover walks it.
RECURSIVE instancelist(_)
instancelist(k) ==
    IF k > Len(AWS_REGIONS) THEN <<>>
    ELSE _recover_region(AWS_REGIONS[k]) \o instancelist(k + 1)

NoRecovered == [key \in Keys |-> <<>>]

\* Variant: a pool that starts with the free lists it has.
OldFreeLists == _instances

\* EC2Pool.__init__: self._instances = defaultdict(list)
NewFreeLists == [r \in Regions |-> <<>>]

\* The loop of EC2Pool._recover over the instances found.
RECURSIVE RecoverLoop(_, _, _)
RecoverLoop(list, free, rec) ==
    IF list = <<>> THEN [free |-> free, recovered |-> rec]
    ELSE LET i == Head(list)
             instance == fleet[i]
         IN IF instance.state = "terminated"
            THEN RecoverLoop(Tail(list), free, rec)
            ELSE IF ~available_instance(instance)
            THEN RecoverLoop(Tail(list),
                     [free EXCEPT ![instance.region] = Append(@, i)], rec)
            ELSE IF allocated(instance)
            THEN RecoverLoop(Tail(list), free,
                     [rec EXCEPT ![<<instance.run, instance.uuid>>] = Append(@, i)])
            ELSE RecoverLoop(Tail(list),
                     [free EXCEPT ![instance.region] = Append(@, i)], rec)

\* EC2Pool._recover on a pool whose free lists are `free`.
_recover(free) == RecoverLoop(instancelist(1), free, NoRecovered)

\* Variant: the bucket is not deleted.
KeepBucket(run_id, uuid) ==
    [instances |-> _recovered[<<run_id, uuid>>], recovered |-> _recovered]

\* EC2Pool._locate_recovered_instances: the bucket, and the buckets left.
_locate_recovered_instances(run_id, uuid) ==
    [instances |-> _recovered[<<run_id, uuid>>],
     recovered |-> [_recovered EXCEPT ![<<run_id, uuid>>] = <<>>]]

\* The for loop of EC2Pool._locate_existing_instances, from position k.
RECURSIVE LocateLoop(_, _, _, _, _, _)
LocateLoop(list, k, instances, remaining, count, inst_type) ==
    IF k > Len(list) THEN [instances |-> instances, remaining |-> remaining]
    ELSE LET i == list[k]
             take == /\ available_instance(fleet[i])
                     /\ inst_type = fleet[i].itype
             ins == IF take THEN Append(instances, i) ELSE instances
             rem == IF take THEN remaining ELSE Append(remaining, i)
         IN IF Len(ins) >= count
            THEN [instances |-> ins, remaining |-> rem]
            ELSE LocateLoop(list, k + 1, ins, rem, count, inst_type)

\* Variant: the instances taken stay in the free list.
KeepFreeList(count, inst_type, region) ==
    LET r == LocateLoop(_instances[region], 1, <<>>, <<>>, count, inst_type)
    IN [instances |-> r.instances, free |-> _instances[region]]

\* Variant: the last instance taken is put back in the free list as well.
PutBackLast(count, inst_type, region) ==
    LET region_instances == _instances[region]
        r == LocateLoop(region_instances, 1, <<>>, <<>>, count, inst_type)
        removed == Len(r.instances) + Len(r.remaining)
    IN [instances |-> r.instances,
        free |-> SubSeq(region_instances, removed + 1, Len(region_instances))
                 \o r.remaining
                 \o (IF r.instances = <<>> THEN <<>>
                     ELSE <<r.instances[Len(r.instances)]>>)]

\* EC2Pool._locate_existing_instances: the instances taken and the region's
\* free list afterwards.
_locate_existing_instances(count, inst_type, region) ==
    LET region_instances == _instances[region]
        r == LocateLoop(region_instances, 1, <<>>, <<>>, count, inst_type)
        removed == Len(r.instances) + Len(r.remaining)
    IN [instances |-> r.instances,
        free |-> SubSeq(region_instances, removed + 1, Len(region_instances))
                 \o r.remaining]

\* conn.run_instances(min_count=count, max_count=count): the new instances.
_allocate_instances(count, inst_type, region) ==
    [k \in 1..count |-> [region |-> region, itype |-> inst_type,
                         state |-> "pending", age |-> 0,
                         run |-> "", uuid |-> ""]]

\* Variant: the run id and the step uuid are written to each other's tag.
SwapTags(f, ids, run_id, uuid) ==
    [i \in 1..Len(f) |->
        IF i \in ids THEN [f[i] EXCEPT !.run = uuid, !.uuid = run_id] ELSE f[i]]

\* conn.create_tags(ids, {"Name", "Project", "RunId", "Uuid"}) on fleet f.
TagInstances(f, ids, run_id, uuid) ==
    [i \in 1..Len(f) |->
        IF i \in ids
        THEN [f[i] EXCEPT !.run = run_id, !.uuid = uuid]
        ELSE f[i]]

\* Variant: the tags are not cleared.
KeepTags(f, ids) == f

\* conn.create_tags(ids, {"RunId": "", "Uuid": ""}) on fleet f.
DetagInstances(f, ids) ==
    [i \in 1..Len(f) |->
        IF i \in ids THEN [f[i] EXCEPT !.run = "", !.uuid = ""] ELSE f[i]]

\* EC2Collection.__init__ raises ValueError on an empty list of instances:
\* ThreadPoolExecutor(len(instances)) refuses max_workers = 0.
EC2Collection_raises(instances) == Len(instances) = 0

(***************************************************************************)
(* The pool's operations.  Each is one step: the pool's own state (free    *)
(* lists, buckets) is read and written before the call first waits for the *)
(* IaaS, and the connection of a region is cached.                         *)
(***************************************************************************)

\* A broker process starts: EC2Pool.__init__ and initialize() -> _recover().
\* The collections of an earlier process are gone with it.
BrokerStart(uf) ==
    LET r == _recover(NewFreeLists)
    IN /\ use_filters \/ ~uf
       /\ use_filters' = uf
       /\ _instances' = r.free
       /\ _recovered' = r.recovered
       /\ collections' = {}
       /\ last' = IF last \in {"start", "restart"} THEN "restart" ELSE "start"
       /\ released' = <<>>
       /\ UNCHANGED <<fleet, events, runvars, stepvars, collvars, tagvars, connvars>>

\* EC2Pool.request_instances(run_id, uuid, count, inst_type, region,
\*                           allocate_missing) for a step of the plan.
request_instances(run_id, uuid, count, allocate_missing) ==
    LET region == instance_region(uuid)
        inst_type == instance_type(uuid)
        loc == _locate_recovered_instances(run_id, uuid)
        recovered == loc.instances
        remaining_count == count - Len(recovered)
    IN IF ~allocate_missing
       THEN /\ _recovered' = loc.recovered
            /\ IF EC2Collection_raises(recovered)
               THEN /\ collections' = collections
                    /\ last' = "raised"
               ELSE /\ collections' = collections \cup
                           {[run |-> run_id, uuid |-> uuid, instances |-> recovered]}
                    /\ last' = "recovered"
            /\ released' = <<>>
            /\ UNCHANGED <<fleet, events, use_filters, _instances, runvars, stepvars, collvars, tagvars, connvars>>
       ELSE LET ex == _locate_existing_instances(remaining_count, inst_type, region)
                have == recovered \o ex.instances
                num == count - Len(have)
                new == IF num > 0
                       THEN _allocate_instances(num, inst_type, region)
                       ELSE <<>>
                newids == [k \in 1..Len(new) |-> Len(fleet) + k]
                instances == have \o newids
                fleet1 == fleet \o new
            IN /\ Len(fleet1) <= MaxInstances
               /\ fleet' = IF use_filters
                           THEN TagInstances(fleet1, Range(instances), run_id, uuid)
                           ELSE fleet1
               /\ _recovered' = loc.recovered
               /\ _instances' = [_instances EXCEPT ![region] = ex.free]
               /\ IF EC2Collection_raises(instances)
                  THEN /\ collections' = collections
                       /\ last' = "raised"
                  ELSE /\ collections' = collections \cup
                              {[run |-> run_id, uuid |-> uuid,
                                instances |-> instances]}
                       /\ last' = "request"
               /\ released' = <<>>
               /\ UNCHANGED <<events, use_filters, runvars, stepvars, collvars, tagvars, connvars>>

\* EC2Pool.release_instances(collection); the caller then drops the
\* collection (RunManager._cleanup clears _set_links).
release_instances(c) ==
    /\ IF c.instances = <<>>
       THEN UNCHANGED <<fleet, _instances>>
       ELSE LET region == fleet[c.instances[1]].region
            IN /\ fleet' = IF use_filters
                           THEN DetagInstances(fleet, Range(c.instances))
                           ELSE fleet
               /\ _instances' = [_instances EXCEPT ![region] = @ \o c.instances]
    /\ collections' = collections \ {c}
    /\ last' = "release"
    /\ released' = c.instances
    /\ UNCHANGED <<events, use_filters, _recovered, runvars, stepvars, collvars, tagvars, connvars>>

\* Variant: the instances are not terminated.
KeepRunning(f, ids) == f

\* conn.terminate_instances(ids) on fleet f.
TerminateInstances(f, ids) ==
    [i \in 1..Len(f) |->
        IF i \in ids THEN [f[i] EXCEPT !.state = "terminated", !.age = 0]
        ELSE f[i]]

\* EC2Pool.reap_instances(): the free lists are replaced by new ones and
\* the instances they held are terminated, region by region.
reap_instances ==
    /\ fleet' = TerminateInstances(fleet,
                    UNION {Range(_instances[r]) : r \in Regions})
    /\ _instances' = [r \in Regions |-> <<>>]
    /\ last' = "reap"
    /\ released' = <<>>
    /\ UNCHANGED <<events, use_filters, _recovered, collections, runvars, stepvars, collvars, tagvars, connvars>>

\* The IaaS moves an instance on in its life cycle (instance.state as the
\* broker next reads it).
Lifecycle == {<<"pending", "running">>, <<"running", "stopped">>,
              <<"pending", "terminated">>, <<"running", "terminated">>,
              <<"stopped", "terminated">>}

InstanceChanges(i, s) ==
    /\ events < MaxEvents
    /\ <<fleet[i].state, s>> \in Lifecycle
    /\ fleet' = [fleet EXCEPT ![i].state = s, ![i].age = 0]
    /\ events' = events + 1
    /\ last' = IF last \in {"start", "restart"} THEN "changed" ELSE last
    /\ UNCHANGED <<use_filters, _instances, _recovered, collections, released,
                   runvars, stepvars, collvars, tagvars, connvars>>

\* A minute passes: the pending instances are a minute older.
Older(instance) ==
    IF instance.state = "pending" /\ instance.age < PendingMinutes
    THEN [instance EXCEPT !.age = @ + 1]
    ELSE instance

Tick ==
    /\ events < MaxEvents
    /\ \E i \in Ids : Older(fleet[i]) # fleet[i]
    /\ fleet' = [i \in Ids |-> Older(fleet[i])]
    /\ events' = events + 1
    /\ UNCHANGED <<use_filters, _instances, _recovered, collections,
                   last, released, runvars, stepvars, collvars, tagvars, connvars>>

NoLinks == [s \in Uuids |-> [started |-> FALSE, finished |-> FALSE]]

\* No run has been asked for yet.
RunIdle ==
    /\ pc = "idle" /\ state = INITIALIZING /\ run_exists = FALSE
    /\ abort = FALSE /\ aborted = FALSE /\ links = NoLinks /\ _set_links = {}
    /\ raised = FALSE /\ in_runs = FALSE /\ handler_state = -1 /\ http = 0
    /\ seen = [running_abort |-> FALSE, late_pass |-> FALSE,
              loop_abort |-> FALSE, early_abort |-> FALSE]

\* The Run has no plan, no clock reading and no Step Record yet.
StepsIdle ==
    /\ now = 0
    /\ plan = [s \in Uuids |->
                  [run_delay |-> 0, run_max_time |-> 1, dns_name |-> ""]]
    /\ run = [started_at |-> None, completed_at |-> None]
    /\ step_record = [s \in Uuids |->
            [started_at |-> None, completed_at |-> None, failed |-> FALSE]]
    /\ local_dns = [s \in Uuids |-> FALSE]
    /\ _dns_map = [n \in {"db"} |-> ""]
    /\ requests = [s \in Uuids |-> "pending"]
    /\ held = {}
    /\ pass_dones = {}
    /\ pass_starts = <<>>
    /\ calls = [s \in Uuids |->
            [start |-> "", stop |-> "", by |-> "", ran_max |-> FALSE]]
    /\ resolver = [s \in Uuids |-> {}]
    /\ start_order = <<>>
    /\ slow = FALSE

\* A pool that filters by tag and holds no instance.
PoolEmpty ==
    /\ fleet = <<>>
    /\ events = 0
    /\ use_filters = TRUE
    /\ _instances = [r \in Regions |-> <<>>]
    /\ _recovered = NoRecovered
    /\ collections = {}
    /\ last = "start"
    /\ released = <<>>

\* No collection is looked at.
CollIdle ==
    /\ coll_instances = <<>>
    /\ inst_state = <<>>
    /\ nonresponsive = {}
    /\ coll = [started |-> FALSE, finished |-> FALSE, local_dns |-> FALSE]
    /\ cpc = "idle"
    /\ polls = 0
    /\ ready = <<>>
    /\ removals = <<>>
    /\ iaas = [detagged |-> {}, terminated |-> {}]
    /\ trace = <<>>
    /\ setup_seen = {}

\* No instance is being tagged.
TagIdle ==
    /\ tagging = <<>>
    /\ tagged = "idle"

\* Nobody asks for a connection.
ConnIdle ==
    /\ _conns = [r \in Regions |-> 0]
    /\ connected = [r \in Regions |-> 0]
    /\ conn_calls = <<>>

InitPool ==
    /\ fleet = <<>>
    /\ events = 0
    /\ use_filters \in BOOLEAN
    /\ _instances = [r \in Regions |-> <<>>]
    /\ _recovered = NoRecovered
    /\ collections = {}
    /\ last = "start"
    /\ released = <<>>
    /\ RunIdle
    /\ StepsIdle
    /\ CollIdle
    /\ TagIdle
    /\ ConnIdle

NextPool ==
    \/ \E uf \in BOOLEAN : BrokerStart(uf)
    \/ \E run_id \in RunIds, uuid \in Uuids, count \in 1..MaxCount,
          am \in BOOLEAN :
            request_instances(run_id, uuid, count, am)
    \/ \E c \in collections : release_instances(c)
    \/ \E i \in Ids, s \in States : InstanceChanges(i, s)
    \/ Tick

SpecPool == InitPool /\ [][NextPool]_vars

\* One pool process that is asked to reap: requests, releases,
\* reap_instances, and the IaaS.
NextReap ==
    \/ \E run_id \in RunIds, uuid \in Uuids, count \in 1..MaxCount :
            request_instances(run_id, uuid, count, TRUE)
    \/ \E c \in collections : release_instances(c)
    \/ reap_instances
    \/ \E i \in Ids, s \in States : InstanceChanges(i, s)
    \/ Tick

SpecReap == InitPool /\ [][NextReap]_vars

(***************************************************************************)
(* Properties of the pool (SpecPool).                                      *)
(***************************************************************************)

\* The collection a request hands out in a step.
Handed == collections' \ collections

\* EC2Pool.request_instances(.., allocate_missing=True) when
\* _allocate_instances raises (get_ami finds no image of the type, or
\* conn.run_instances raises): the recovered and the free instances have
\* been taken by then, and the exception leaves the call.
request_instances_raises(run_id, uuid, count) ==
    LET region == instance_region(uuid)
        inst_type == instance_type(uuid)
        loc == _locate_recovered_instances(run_id, uuid)
        recovered == loc.instances
        remaining_count == count - Len(recovered)
        ex == _locate_existing_instances(remaining_count, inst_type, region)
        have == recovered \o ex.instances
        num == count - Len(have)
    IN /\ num > 0
       /\ _recovered' = loc.recovered
       /\ _instances' = [_instances EXCEPT ![region] = ex.free]
       /\ last' = "raised"
       /\ released' = <<>>
       /\ UNCHANGED <<fleet, events, use_filters, collections, runvars,
                      stepvars, collvars, tagvars, connvars>>

\* One pool process whose requests can fail: requests, failing requests,
\* releases, and the IaaS.
NextFail ==
    \/ \E run_id \in RunIds, uuid \in Uuids, count \in 1..MaxCount :
            request_instances(run_id, uuid, count, TRUE)
    \/ \E run_id \in RunIds, uuid \in Uuids, count \in 1..MaxCount :
            request_instances_raises(run_id, uuid, count)
    \/ \E c \in collections : release_instances(c)
    \/ \E i \in Ids, s \in States : InstanceChanges(i, s)
    \/ Tick

SpecFail == InitPool /\ [][NextFail]_vars

\* The steps that are calls of the pool: `last` names the call, and a step
\* of the IaaS leaves the collections and `last` alone or changes the fleet.
RequestStep ==
    /\ last' \in {"request", "recovered", "raised"}
    /\ collections' # collections \/ last' # last
ReleaseStep == last' = "release" /\ collections' # collections
StartStep == last' \in {"start", "restart"} /\ fleet' = fleet

\* The instances some recovery bucket holds / some free list holds.
InBuckets(rec) == UNION {Range(rec[key]) : key \in Keys}
InFreeLists(free) == UNION {Range(free[r]) : r \in Regions}

Tagged(instance) == instance.run # "" \/ instance.uuid # ""

\* C4: with allocate_missing = true, request_instances(run, step, count, ..)
\* returns a Collection of exactly count instances, whatever the recovery
\* bucket of (run, step) and the region's free list hold.
C4_ExactlyCount ==
    [][RequestStep => \A run_id \in RunIds, uuid \in Uuids, count \in 1..MaxCount :
          request_instances(run_id, uuid, count, TRUE)
          => /\ last' = "request"
             /\ \E c \in Handed : Len(c.instances) = count]_vars

C6_ReleaseToRegion(c) ==
    LET region == fleet[c.instances[1]].region
    IN /\ Range(c.instances) \subseteq Range(_instances'[region])
       /\ \A r \in Regions \ {region} : _instances'[r] = _instances[r]

\* C6, second half: the request that follows the release, for the released
\* instances' type and region and count = the number released, takes all of
\* them from the free list, leaves the free list empty, creates none.
C6_TakesReleased(uuid) ==
    LET region == instance_region(uuid)
    IN /\ last' = "request"
       /\ \E c \in Handed : Range(c.instances) = Range(released)
       /\ _instances'[region] = <<>>
       /\ Len(fleet') = Len(fleet)

C6_FollowingRequest(run_id, uuid) ==
    /\ last = "release" /\ released # <<>> /\ Len(released) <= MaxCount
    /\ \A i \in Range(released) : /\ fleet[i].itype = instance_type(uuid)
                                  /\ fleet[i].region = instance_region(uuid)
    /\ request_instances(run_id, uuid, Len(released), TRUE)

C7_RecoveredOnly ==
    [][RequestStep => \A run_id \in RunIds, uuid \in Uuids, count \in 1..MaxCount :
          request_instances(run_id, uuid, count, FALSE)
          => /\ last' = "recovered"
             /\ \E c \in Handed : c.instances = _recovered[<<run_id, uuid>>]
             /\ fleet' = fleet
             /\ _instances' = _instances
             /\ _recovered'[<<run_id, uuid>>] = <<>>]_vars

\* C8: the instances of the recovery bucket of (run, step) are handed only
\* to a request for (run, step); a request for another key leaves the bucket
\* unchanged; the first matching request drains the bucket, so that its
\* instances are in no bucket and no free list for a second request to find.
C8_BucketOnlyForItsKey ==
    [][RequestStep
       => \E asked \in Keys :
             /\ \A c \in Handed : <<c.run, c.uuid>> = asked
             /\ \A key \in Keys \ {asked} :
                   /\ _recovered'[key] = _recovered[key]
                   /\ \A c \in Handed :
                         Range(c.instances) \cap Range(_recovered[key]) = {}
             /\ _recovered'[asked] = <<>>
             /\ Range(_recovered[asked])
                   \cap (InBuckets(_recovered') \cup InFreeLists(_instances')) = {}
             /\ \A c \in Handed :
                   Range(_recovered[asked]) \subseteq Range(c.instances)]_vars

\* A request for one key has been served out of its bucket while the bucket
\* of another key held instances, which it still holds.
C8_Witness ==
    /\ last \in {"request", "recovered"}
    /\ \E c \in collections, key \in Keys :
          /\ key # <<c.run, c.uuid>>
          /\ _recovered[key] # <<>>
          /\ _recovered[<<c.run, c.uuid>>] = <<>>
          /\ \A i \in Range(c.instances) :
                fleet[i].run = c.run /\ fleet[i].uuid = c.uuid
          /\ ~use_filters

\* How often instance i stands in a list.
Times(i, list) == Cardinality({k \in 1..Len(list) : list[k] = i})
Placed(i, free, rec) ==
    [free |-> [r \in Regions |-> Times(i, free[r])],
     rec |-> [key \in Keys |-> Times(i, rec[key])]]
Nowhere == [free |-> [r \in Regions |-> 0], rec |-> [key \in Keys |-> 0]]
OnlyInFreeList(region) == [Nowhere EXCEPT !.free[region] = 1]
OnlyInBucket(key) == [Nowhere EXCEPT !.rec[key] = 1]

\* C9 as stated, its classes read in the order that makes them exclusive:
\* terminated -> nowhere; pending for 2 minutes or more -> free list of its
\* region; carrying RunId and Uuid -> bucket (RunId, Uuid); without them and
\* running or recently pending -> free list of its region.
C9_ClassAsStated(instance) ==
    IF instance.state = "terminated" THEN {Nowhere}
    ELSE IF instance.state = "pending" /\ instance.age >= PendingMinutes
    THEN {OnlyInFreeList(instance.region)}
    ELSE IF instance.run # "" /\ instance.uuid # ""
    THEN {OnlyInBucket(<<instance.run, instance.uuid>>)}
    ELSE IF instance.state \in {"running", "pending"}
    THEN {OnlyInFreeList(instance.region)}
    ELSE {Nowhere, OnlyInFreeList(instance.region)}

C9_Classification ==
    [][StartStep
          => \A i \in Ids :
                Placed(i, _instances', _recovered') \in C9_ClassAsStated(fleet[i])]_vars

\* C9 amended: terminated -> nowhere; any other instance that is neither
\* running nor pending for less than 2 minutes -> free list of its region,
\* whatever its tags; running or recently pending and carrying RunId and
\* Uuid -> bucket (RunId, Uuid); running or recently pending without them
\* -> free list of its region.
C9_Class(instance) ==
    IF instance.state = "terminated" THEN Nowhere
    ELSE IF ~ \/ instance.state = "running"
              \/ instance.state = "pending" /\ instance.age < PendingMinutes
    THEN OnlyInFreeList(instance.region)
    ELSE IF instance.run # "" /\ instance.uuid # ""
    THEN OnlyInBucket(<<instance.run, instance.uuid>>)
    ELSE OnlyInFreeList(instance.region)

C9_ClassificationByAvailability ==
    [][StartStep
          => \A i \in Ids :
                Placed(i, _instances', _recovered') = C9_Class(fleet[i])]_vars

\* A start has found a stopped instance carrying RunId and Uuid, now in the
\* free list, and an available one carrying them, now in its bucket.
C9_Witness ==
    /\ last = "start"
    /\ \E i \in Ids :
          /\ fleet[i].state = "stopped" /\ fleet[i].run # "" /\ fleet[i].uuid # ""
          /\ i \in Range(_instances[fleet[i].region])
    /\ \E i \in Ids :
          /\ fleet[i].state = "pending" /\ fleet[i].age = 0
          /\ i \in Range(_recovered[<<fleet[i].run, fleet[i].uuid>>])

\* C10 as stated: a start that follows a start over the same instances,
\* states and tags yields the same free lists and the same buckets.
C10_Idempotent ==
    [][(last \in {"start", "restart"}) /\ last' = "restart"
       => (_instances' = _instances /\ _recovered' = _recovered)]_vars

\* C10 amended: ... provided every instance the first start put in a
\* recovery bucket is still available at the second (no pending instance
\* carrying RunId and Uuid has reached 2 minutes in between).
C10_IdempotentWhileAvailable ==
    [][/\ last \in {"start", "restart"} /\ last' = "restart"
       /\ \A i \in InBuckets(_recovered) :
             \/ fleet[i].state = "running"
             \/ fleet[i].state = "pending" /\ fleet[i].age < PendingMinutes
       => (_instances' = _instances /\ _recovered' = _recovered)]_vars

\* A second start has classified a fleet with an allocated and a free
\* instance.
C10_Witness ==
    /\ last = "restart"
    /\ \E key \in Keys : _recovered[key] # <<>>
    /\ \E r \in Regions : _instances[r] # <<>>

\* C11: the (RunId, Uuid) pair round-trips through the tags: the instances
\* a pool with use_filters handed out for (run, step), still running when a
\* new pool starts, are recovered into the bucket (run, step) and nowhere
\* else; a request with allocate_missing = false for a key returns its
\* bucket, whose instances carry that key, and creates no instance.
C11_TagRoundTrip ==
    [][/\ StartStep /\ use_filters
          => \A c \in collections : \A i \in Range(c.instances) :
                fleet[i].state = "running"
                => Placed(i, _instances', _recovered')
                      = OnlyInBucket(<<c.run, c.uuid>>)
       /\ last' = "recovered" /\ collections' # collections
          => /\ Len(fleet') = Len(fleet)
             /\ \E c \in Handed :
                   /\ c.instances = _recovered[<<c.run, c.uuid>>]
                   /\ \A i \in Range(c.instances) :
                         fleet[i].run = c.run /\ fleet[i].uuid = c.uuid]_vars

\* A request with allocate_missing = false has returned two running
\* instances that carry its key, and no instance was created for it.
C11_Witness ==
    /\ last = "recovered"
    /\ \E c \in collections :
          /\ Len(c.instances) = 2 /\ Len(fleet) = 2
          /\ \A i \in Range(c.instances) :
                /\ fleet[i].state = "running"
                /\ fleet[i].run = c.run /\ fleet[i].uuid = c.uuid

\* C24: from the region's free list request_instances takes only instances
\* of the requested type that are available (running, or pending for less
\* than 2 minutes), at most the remaining count (count less the recovered
\* instances) of them, and every instance it does not take stays in the
\* free list.
C24_TakesFromFreeList ==
    [][RequestStep
       => \A run_id \in RunIds, uuid \in Uuids, count \in 1..MaxCount :
            request_instances(run_id, uuid, count, TRUE)
            => LET free == InFreeLists(_instances)
                   got == UNION {Range(c.instances) : c \in Handed}
                   taken == free \cap got
                   remaining_count == count - Len(_recovered[<<run_id, uuid>>])
               IN /\ \A i \in taken : /\ fleet[i].itype = instance_type(uuid)
                                      /\ available_instance(fleet[i])
                  /\ Cardinality(taken)
                        <= IF remaining_count > 0 THEN remaining_count ELSE 0
                  /\ InFreeLists(_instances') = free \ taken]_vars

(***************************************************************************)
(* Properties of reaping (SpecReap).                                       *)
(***************************************************************************)

ReapStep == last' = "reap" /\ (last # "reap" \/ _instances' # _instances)

\* C12: reap_instances() terminates every instance that is in a region's
\* free list when it is called, and leaves every region's free list empty.
C12_ReapTerminatesFree ==
    [][ReapStep
       => /\ \A i \in InFreeLists(_instances) : fleet'[i].state = "terminated"
          /\ \A r \in Regions : _instances'[r] = <<>>]_vars

\* A reap has terminated two instances that were released to the free list;
\* an instance is terminated by the IaaS itself only at the cost of an event.
C12_Witness ==
    /\ last = "reap" /\ events = 0
    /\ Len(fleet) = 2
    /\ \A i \in Ids : fleet[i].state = "terminated"

\* How often instance i occurs in sequence q.
Occurrences(q, i) == Cardinality({k \in 1..Len(q) : q[k] = i})

\* How often instance i is held: in the free lists, in the recovery buckets
\* and in the collections in use.
Holders(i) ==
    LET RECURSIVE Sum(_, _)
        Sum(f, S) == IF S = {} THEN 0
                     ELSE LET x == CHOOSE y \in S : TRUE
                          IN  f[x] + Sum(f, S \ {x})
    IN  Sum([r \in Regions |-> Occurrences(_instances[r], i)], Regions)
        + Sum([key \in Keys |-> Occurrences(_recovered[key], i)], Keys)
        + Sum([c \in collections |-> Occurrences(c.instances, i)], collections)

\* C36: a request_instances call that fails leaves the pool as it was: the
\* free lists and the recovery buckets hold the same instances after the
\* call as before it.
C36_FailedRequestKeepsPool ==
    [][\A run_id \in RunIds, uuid \in Uuids, count \in 1..MaxCount :
          request_instances_raises(run_id, uuid, count)
          => /\ InFreeLists(_instances') = InFreeLists(_instances)
             /\ InBuckets(_recovered') = InBuckets(_recovered)]_vars

CommittedWrite(row, value) == value

\* RunHandler.delete: run.state = COMPLETED on the object of the handler's
\* own session, which is never flushed nor committed: what the row holds.
HandlerWrite(row, value) == row

\* The try of start() raises at this point: on to _cleanup(exc=True).
Raise ==
    /\ raised' = TRUE
    /\ pc' = "cleanup"

\* Broker.run_plan -> RunManager.new_run: the Run row is added and committed,
\* start() runs up to the pool requests of _get_steps, and the manager is
\* registered in Broker._runs.
run_plan ==
    /\ pc = "idle"
    /\ run_exists' = TRUE
    /\ state' = INITIALIZING
    /\ in_runs' = TRUE
    /\ pc' = "get_steps"
    /\ UNCHANGED <<abort, aborted, links, _set_links, raised, handler_state,
                   http, seen, poolvars, stepvars, collvars, tagvars, connvars>>

\* RunManager._get_steps once the pool has answered: a request has raised,
\* or every step is linked to its collection; then _initialize up to its
\* waiting for the instances and the helpers.
_get_steps(ok) ==
    /\ pc = "get_steps"
    /\ IF ~ok
       THEN Raise /\ UNCHANGED _set_links
       ELSE /\ _set_links' = Uuids
            /\ pc' = "setup"
            /\ UNCHANGED raised
    /\ UNCHANGED <<state, run_exists, abort, aborted, links, in_runs,
                   handler_state, http, seen, poolvars, stepvars, collvars, tagvars, connvars>>

\* RunManager._initialize once the collections are up and the images
\* pulled, or a helper has raised: the Run goes Running.
_initialize(ok) ==
    /\ pc = "setup"
    /\ IF ~ok
       THEN Raise /\ UNCHANGED state
       ELSE /\ state' = RUNNING
            /\ IF run_exists
               THEN pc' = "run" /\ UNCHANGED raised
               ELSE Raise
    /\ UNCHANGED <<run_exists, abort, aborted, links, _set_links, in_runs,
                   handler_state, http, seen, poolvars, stepvars, collvars, tagvars, connvars>>

\* The run loop leaves: self.run.state = TERMINATING and the commit.
Terminate ==
    /\ state' = TERMINATING
    /\ IF run_exists
       THEN pc' = "shutdown" /\ UNCHANGED raised
       ELSE Raise
    /\ seen' = [seen EXCEPT !.loop_abort = abort]

\* The top of the loop of _run up to the first wait of _check_steps.
LoopTop ==
    IF abort
    THEN Terminate
    ELSE IF \A s \in _set_links : links[s].started /\ links[s].finished
    THEN Terminate
    ELSE /\ pc' = "check"
         /\ seen' = [seen EXCEPT !.late_pass = @ \/ seen.running_abort]
         /\ UNCHANGED <<state, raised>>

\* RunManager._run is entered: the state is read again.
_run ==
    /\ pc = "run"
    /\ IF ~run_exists
       THEN Raise /\ UNCHANGED <<state, seen>>
       ELSE IF state # RUNNING
       THEN pc' = "shutdown" /\ UNCHANGED <<state, raised, seen>>
       ELSE LoopTop
    /\ UNCHANGED <<run_exists, abort, aborted, links, _set_links, in_runs,
                   handler_state, http, poolvars, stepvars, collvars, tagvars, connvars>>

\* RunManager._check_steps after its first wait: the steps in `dones` are
\* found done and stopped, the steps in `starts` are due and started (an
\* exception of _stop_step or _start_step is logged); or _is_done raises
\* for a step that runs (is_running, remove_dead_instances), or the commit
\* after a stop or a start raises.
_check_steps(dones, starts, ok) ==
    /\ pc = "check"
    /\ dones \subseteq {s \in _set_links : links[s].started /\ ~links[s].finished}
    /\ starts \subseteq {s \in _set_links : ~links[s].started}
    /\ ok \/ \E s \in _set_links : links[s].started /\ ~links[s].finished
    /\ IF ~ok
       THEN Raise /\ UNCHANGED links
       ELSE /\ links' = [s \in Uuids |->
                   [started |-> links[s].started \/ s \in starts,
                    finished |-> links[s].finished \/ s \in dones]]
            /\ IF run_exists \/ dones \cup starts = {}
               THEN pc' = "sleep" /\ UNCHANGED raised
               ELSE Raise
    /\ UNCHANGED <<state, run_exists, abort, aborted, _set_links, in_runs,
                   handler_state, http, seen, poolvars, stepvars, collvars, tagvars, connvars>>

\* The sleep of the loop is over: the next top of the loop.
_run_loop ==
    /\ pc = "sleep"
    /\ LoopTop
    /\ UNCHANGED <<run_exists, abort, aborted, links, _set_links, in_runs,
                   handler_state, http, poolvars, stepvars, collvars, tagvars, connvars>>

\* _stop_step marks the collection finished before it first waits.
Stopped(steps) ==
    [s \in Uuids |->
        IF s \in steps THEN [links[s] EXCEPT !.finished = TRUE] ELSE links[s]]

\* RunManager._shutdown up to its waiting for the steps to stop.
_shutdown ==
    /\ pc = "shutdown"
    /\ IF ~run_exists
       THEN Raise /\ UNCHANGED links
       ELSE IF state # TERMINATING
       THEN pc' = "cleanup" /\ UNCHANGED <<raised, links>>
       ELSE /\ links' = Stopped(_set_links)
            /\ pc' = "stopping"
            /\ UNCHANGED raised
    /\ UNCHANGED <<state, run_exists, abort, aborted, _set_links, in_runs,
                   handler_state, http, seen, poolvars, stepvars, collvars, tagvars, connvars>>

\* RunManager._shutdown once the steps are stopped, or a helper has raised.
_shutdown_done(ok) ==
    /\ pc = "stopping"
    /\ IF ~ok
       THEN Raise /\ UNCHANGED <<state, aborted>>
       ELSE /\ state' = COMPLETED
            /\ aborted' = abort
            /\ IF run_exists
               THEN pc' = "cleanup" /\ UNCHANGED raised
               ELSE Raise
    /\ UNCHANGED <<run_exists, abort, links, _set_links, in_runs,
                   handler_state, http, seen, poolvars, stepvars, collvars, tagvars, connvars>>

\* RunManager._cleanup(exc), and start() returns.
_cleanup ==
    /\ pc = "cleanup"
    /\ links' = IF raised THEN Stopped(_set_links) ELSE links
    /\ _set_links' = {}
    /\ pc' = "done"
    /\ UNCHANGED <<state, run_exists, abort, aborted, raised, in_runs,
                   handler_state, http, seen, poolvars, stepvars, collvars, tagvars, connvars>>

\* Broker.abort_run(run_id)
abort_run ==
    /\ abort' = (abort \/ in_runs)
    /\ seen' = [seen EXCEPT !.running_abort =
                   @ \/ (in_runs /\ ~abort /\ run_exists /\ state = RUNNING
                         /\ pc \in {"run", "check", "sleep"}),
                            !.early_abort =
                   @ \/ (in_runs /\ pc \in {"get_steps", "setup", "run"})]

\* OrchestrateHandler.delete: DELETE /api/orchestrate/{id}
OrchestrateHandler_delete ==
    /\ abort_run
    /\ UNCHANGED <<pc, state, run_exists, aborted, links, _set_links, raised,
                   in_runs, handler_state, http, poolvars, stepvars, collvars, tagvars, connvars>>

\* Variant: a Run that is Terminating is refused as well.
TerminatingToo(run_state, purge) == run_state >= TERMINATING /\ ~purge

\* RunHandler.delete: run.state == COMPLETED and not purge
AlreadyTerminated(run_state, purge) == run_state = COMPLETED /\ ~purge

\* RunHandler.get: the status GET /api/run/{id} is answered with; it
\* changes nothing.
RunHandler_get == IF run_exists THEN 200 ELSE 404

\* RunHandler.delete: DELETE /api/run/{id}, with or without purge.
RunHandler_delete(purge) ==
    /\ IF ~run_exists
       THEN /\ http' = 404
            /\ UNCHANGED <<abort, seen, state, handler_state, run_exists>>
       ELSE IF AlreadyTerminated(state, purge)
       THEN /\ http' = 400
            /\ UNCHANGED <<abort, seen, state, handler_state, run_exists>>
       ELSE /\ abort_run
            /\ IF ~purge
               THEN /\ handler_state' = COMPLETED
                    /\ state' = HandlerWrite(state, COMPLETED)
                    /\ UNCHANGED run_exists
               ELSE /\ run_exists' = FALSE
                    /\ UNCHANGED <<state, handler_state>>
            /\ http' = 200
    /\ UNCHANGED <<pc, aborted, links, _set_links, raised, in_runs, poolvars, stepvars, collvars, tagvars, connvars>>

Init == InitPool

Next ==
    \/ run_plan
    \/ \E ok \in BOOLEAN : _get_steps(ok)
    \/ \E ok \in BOOLEAN : _initialize(ok)
    \/ _run
    \/ \E dones \in SUBSET Uuids, starts \in SUBSET Uuids, ok \in BOOLEAN :
          _check_steps(dones, starts, ok)
    \/ _run_loop
    \/ _shutdown
    \/ \E ok \in BOOLEAN : _shutdown_done(ok)
    \/ _cleanup
    \/ OrchestrateHandler_delete
    \/ \E purge \in BOOLEAN : RunHandler_delete(purge)

Spec == Init /\ [][Next]_vars

(***************************************************************************)
(* The Run Manager's scheduling (SpecSteps).  The same start() as above,   *)
(* now with the clock, the plan's delays and durations, the Step Records   *)
(* and the DNS map, and with _check_steps taken wait by wait.  The clock   *)
(* counts poll intervals: the sleep of the run loop takes one, and a wait  *)
(* for a helper takes none unless Wait says so.  The Run row is not        *)
(* deleted here.                                                           *)
(***************************************************************************)

\* The DNS names a step can register.
DnsNames == {"db"}

\* The plans a Run can be given: per step a delay, a duration and
\* possibly a DNS name.
Plans ==
    [Uuids -> [run_delay : 0..MaxDelay, run_max_time : 1..MaxRunTime,
               dns_name : DnsNames \cup {""}]]

\* run.plan.steps, in order: the order of _set_links.
LinkOrder == <<"s1", "s2">>

\* Variant: a step is stopped once it is past its maximum duration.
StopLate(s) == now > step_record[s].started_at + plan[s].run_max_time

\* StepRecord.should_stop
should_stop(s) == now >= step_record[s].started_at + plan[s].run_max_time

\* Variant: a step that was started is due again.
StartAgain(s) == now >= run.started_at + plan[s].run_delay

\* Variant: a step is due whatever its delay.
StartAtOnce(s) == step_record[s].started_at = None

\* StepRecord.should_start
should_start(s) ==
    IF step_record[s].started_at # None
    THEN FALSE
    ELSE now >= run.started_at + plan[s].run_delay

\* Variant: a step that has not been started can be found done.
DoneBeforeStart(s, running) ==
    IF links[s].finished THEN TRUE
    ELSE IF s \notin running THEN TRUE
    ELSE should_stop(s)

\* RunManager._is_done, where `running` are the steps docker.is_running
\* finds a container of.
_is_done(s, running) ==
    IF step_record[s].started_at = None THEN FALSE
    ELSE IF links[s].finished THEN TRUE
    ELSE IF s \notin running THEN TRUE
    ELSE should_stop(s)

\* Variant: the candidates are started in the order of _set_links.
Unsorted(q) == q

\* starts.sort(key=lambda x: x.step.run_delay): a stable sort.
RECURSIVE SortByDelay(_)
SortByDelay(q) ==
    IF q = <<>> THEN <<>>
    ELSE LET m == CHOOSE i \in 1..Len(q) : \A j \in 1..Len(q) :
                    \/ plan[q[i]].run_delay < plan[q[j]].run_delay
                    \/ plan[q[i]].run_delay = plan[q[j]].run_delay /\ i <= j
         IN <<q[m]>> \o SortByDelay(SubSeq(q, 1, m - 1)
                                      \o SubSeq(q, m + 1, Len(q)))

\* Variant: started_at is written only when _start_step has returned.
StartReturned(rec, outcome) ==
    IF outcome = "raised" THEN [rec EXCEPT !.failed = TRUE]
    ELSE [rec EXCEPT !.started_at = now]

\* _check_steps, after _start_step: failed in the except branch, and
\* started_at in either case.
StartEnded(rec, outcome) ==
    [rec EXCEPT !.failed = @ \/ outcome = "raised", !.started_at = now]

\* What the manager and the handlers leave alone in every step below.
quiet == <<handler_state, http, seen, poolvars, collvars, tagvars, connvars>>

\* Broker.run_plan with a plan: the Run row, and start() up to the pool
\* requests of _get_steps.
new_run(p) ==
    /\ pc = "idle"
    /\ plan' = p
    /\ run_exists' = TRUE
    /\ state' = INITIALIZING
    /\ in_runs' = TRUE
    /\ pc' = "get_steps"
    /\ UNCHANGED <<abort, aborted, links, _set_links, raised, quiet, now, run,
                   step_record, local_dns, _dns_map, requests, held,
                   pass_dones, pass_starts, calls, resolver, start_order,
                   slow>>

\* _get_steps: the pool answers one of the parallel request_instances,
\* with a collection or by raising.
_get_steps_request(s, ok) ==
    /\ pc = "get_steps"
    /\ requests[s] = "pending"
    /\ requests' = [requests EXCEPT ![s] = IF ok THEN "collection" ELSE "raised"]
    /\ held' = IF ok THEN held \cup {s} ELSE held
    /\ UNCHANGED <<pc, state, run_exists, abort, aborted, links, _set_links,
                   raised, in_runs, quiet, now, plan, run, step_record,
                   local_dns, _dns_map, pass_dones, pass_starts, calls,
                   resolver, start_order, slow>>

\* _get_steps once every request is answered: the yield raises if a
\* request did, outside the try; else the links are built, and if that
\* raises the collections are released, the links dropped and the
\* exception is logged.  Then _initialize waits for the instances.
_get_steps_links(ok) ==
    /\ pc = "get_steps"
    /\ \A s \in Uuids : requests[s] # "pending"
    /\ IF \E s \in Uuids : requests[s] = "raised"
       THEN Raise /\ UNCHANGED <<_set_links, held>>
       ELSE /\ pc' = "setup"
            /\ _set_links' = IF ok THEN Uuids ELSE {}
            /\ held' = IF ok THEN held ELSE {}
            /\ UNCHANGED raised
    /\ UNCHANGED <<state, run_exists, abort, aborted, links, in_runs, quiet,
                   now, plan, run, step_record, local_dns, _dns_map, requests,
                   pass_dones, pass_starts, calls, resolver, start_order,
                   slow>>

\* _initialize once the collections are up and the images pulled, or a
\* helper has raised: the Run goes Running and gets its started_at.
_initialize_steps(ok) ==
    /\ pc = "setup"
    /\ IF ~ok
       THEN Raise /\ UNCHANGED <<state, run>>
       ELSE /\ state' = RUNNING
            /\ run' = [run EXCEPT !.started_at = now]
            /\ pc' = "run"
            /\ UNCHANGED raised
    /\ UNCHANGED <<run_exists, abort, aborted, links, _set_links, in_runs,
                   quiet, now, plan, step_record, local_dns, _dns_map,
                   requests, held, pass_dones, pass_starts, calls, resolver,
                   start_order, slow>>

\* _run: the top of the loop, at first or after the sleep of a poll
\* interval: the loop is left (abort, or _check_steps finds every link
\* started and finished) and the Run goes Terminating with its
\* completed_at, or _check_steps waits for the _is_done of its links.
_run_steps ==
    /\ pc \in {"run", "sleep"}
    /\ pc = "sleep" => now < MaxTime
    /\ now' = IF pc = "sleep" THEN now + sleep_time ELSE now
    /\ IF abort \/ \A s \in _set_links : links[s].started /\ links[s].finished
       THEN /\ state' = TERMINATING
            /\ run' = [run EXCEPT !.completed_at = now']
            /\ pc' = "shutdown"
       ELSE /\ pc' = "check"
            /\ UNCHANGED <<state, run>>
    /\ UNCHANGED <<run_exists, abort, aborted, links, _set_links, raised,
                   in_runs, quiet, plan, step_record, local_dns, _dns_map,
                   requests, held, pass_dones, pass_starts, calls, resolver,
                   start_order, slow>>

\* _check_steps: the start candidates of the pass, lowest delay first.
Candidates ==
    SortByDelay(SelectSeq(LinkOrder,
                          LAMBDA s : s \in _set_links /\ should_start(s)))

\* _check_steps once every _is_done has answered, or one has raised
\* (is_running, remove_dead_instances): the steps found done, which
\* shutdown() then stops; with none, on to the start candidates.
_check_steps_dones(running, ok) ==
    /\ pc = "check"
    /\ LET asked == {s \in _set_links :
                        step_record[s].started_at # None /\ ~links[s].finished}
           found == {s \in _set_links : _is_done(s, running)}
       IN /\ running \subseteq asked
          /\ ok \/ asked # {}
          /\ IF ~ok
             THEN Raise /\ UNCHANGED <<pass_dones, pass_starts, calls>>
             ELSE /\ calls' = [s \in Uuids |->
                        IF s \in found /\ ~links[s].finished
                        THEN [calls[s] EXCEPT !.ran_max = should_stop(s)]
                        ELSE calls[s]]
                  /\ UNCHANGED raised
                  /\ IF found # {}
                     THEN /\ pass_dones' = found
                          /\ pc' = "stops"
                          /\ UNCHANGED pass_starts
                     ELSE /\ pass_starts' = Candidates
                          /\ pc' = IF Candidates = <<>> THEN "sleep" ELSE "starts"
                          /\ UNCHANGED pass_dones
    /\ UNCHANGED <<state, run_exists, abort, aborted, links, _set_links,
                   in_runs, quiet, now, plan, run, step_record, local_dns,
                   _dns_map, requests, held, resolver, start_order, slow>>

\* _check_steps once every shutdown() of the pass has ended: _stop_step
\* has returned or raised (in `raising`; a step already finished is not
\* stopped again), and completed_at is written in either case.  Then the
\* start candidates.
shutdown(raising) ==
    /\ pc = "stops"
    /\ raising \subseteq {s \in pass_dones : ~links[s].finished}
    /\ links' = Stopped(pass_dones)
    /\ step_record' = [s \in Uuids |->
            IF s \in pass_dones
            THEN [step_record[s] EXCEPT !.completed_at = now]
            ELSE step_record[s]]
    /\ calls' = [s \in Uuids |->
            IF s \in pass_dones /\ ~links[s].finished
            THEN [calls[s] EXCEPT
                    !.stop = IF s \in raising THEN "raised" ELSE "returned",
                    !.by = "pass"]
            ELSE calls[s]]
    /\ pass_dones' = {}
    /\ pass_starts' = Candidates
    /\ pc' = IF Candidates = <<>> THEN "sleep" ELSE "starts"
    /\ UNCHANGED <<state, run_exists, abort, aborted, _set_links, raised,
                   in_runs, quiet, now, plan, run, local_dns, _dns_map,
                   requests, held, resolver, start_order, slow>>

\* _check_steps: the next candidate is started.  local_dns is set from
\* the map, _start_step marks the collection started, gives the map to
\* dns.start if local_dns, and returns or raises; then failed and
\* started_at are written and the step's name goes into the map.
_start_step(outcome) ==
    /\ pc = "starts"
    /\ LET s == Head(pass_starts)
           dns == \E n \in DnsNames : _dns_map[n] # ""
       IN /\ local_dns' = [local_dns EXCEPT ![s] = dns]
          /\ links' = [links EXCEPT ![s].started = TRUE]
          /\ resolver' = [resolver EXCEPT ![s] =
                            IF dns THEN {n \in DnsNames : _dns_map[n] # ""}
                            ELSE {}]
          /\ step_record' = [step_record EXCEPT
                                ![s] = StartEnded(step_record[s], outcome)]
          /\ calls' = [calls EXCEPT ![s].start = outcome]
          /\ _dns_map' = IF plan[s].dns_name # ""
                         THEN [_dns_map EXCEPT ![plan[s].dns_name] = s]
                         ELSE _dns_map
          /\ start_order' = Append(start_order, s)
    /\ pass_starts' = Tail(pass_starts)
    /\ pc' = IF Tail(pass_starts) = <<>> THEN "sleep" ELSE "starts"
    /\ UNCHANGED <<state, run_exists, abort, aborted, _set_links, raised,
                   in_runs, quiet, now, plan, run, requests, held, pass_dones,
                   slow>>

\* The steps of `stopped` that _stop_step still had to stop: how the call
\* ended, and from where it was made.
StopCalls(stopped, raising, where) ==
    [s \in Uuids |->
        IF s \in stopped /\ ~links[s].finished
        THEN [calls[s] EXCEPT
                !.stop = IF s \in raising THEN "raised" ELSE "returned",
                !.by = where]
        ELSE calls[s]]

\* _shutdown: every link is stopped; the Run goes Completed unless a
\* _stop_step has raised.
_shutdown_steps(raising) ==
    /\ pc = "shutdown"
    /\ raising \subseteq {s \in _set_links : ~links[s].finished}
    /\ links' = Stopped(_set_links)
    /\ calls' = StopCalls(_set_links, raising, "shutdown")
    /\ IF raising # {}
       THEN Raise /\ UNCHANGED <<state, aborted>>
       ELSE /\ state' = COMPLETED
            /\ aborted' = abort
            /\ pc' = "cleanup"
            /\ UNCHANGED raised
    /\ UNCHANGED <<run_exists, abort, _set_links, in_runs, quiet, now, plan,
                   run, step_record, local_dns, _dns_map, requests, held,
                   pass_dones, pass_starts, resolver, start_order, slow>>

\* _cleanup(exc): after an exception the links are stopped (an exception
\* of _stop_step is logged); the collections of the links are released,
\* the links are dropped, and start() returns.  The pool's
\* release_instances returns here.
_cleanup_steps(raising) ==
    /\ pc = "cleanup"
    /\ raising \subseteq {s \in _set_links : raised /\ ~links[s].finished}
    /\ links' = IF raised THEN Stopped(_set_links) ELSE links
    /\ calls' = IF raised THEN StopCalls(_set_links, raising, "cleanup")
                ELSE calls
    /\ held' = held \ _set_links
    /\ _set_links' = {}
    /\ pc' = "done"
    /\ UNCHANGED <<state, run_exists, abort, aborted, raised, in_runs, quiet,
                   now, plan, run, step_record, local_dns, _dns_map, requests,
                   pass_dones, pass_starts, resolver, start_order, slow>>

\* Broker.abort_run(run_id) while the manager is at work.
abort_steps ==
    /\ in_runs /\ ~abort /\ pc # "done"
    /\ abort' = TRUE
    /\ UNCHANGED <<pc, state, run_exists, aborted, links, _set_links, raised,
                   in_runs, quiet, stepvars, collvars, tagvars, connvars>>

\* A poll interval goes by while _initialize or _check_steps waits for a
\* helper.
Wait ==
    /\ pc \in {"setup", "check", "stops", "starts"}
    /\ now < MaxTime
    /\ now' = now + 1
    /\ slow' = (slow \/ pc # "setup")
    /\ UNCHANGED <<runvars, poolvars, plan, run, step_record, local_dns,
                   _dns_map, requests, held, pass_dones, pass_starts, calls,
                   resolver, start_order, collvars, tagvars, connvars>>

\* The manager takes its next step.
ManagerStep ==
    \/ \E s \in Uuids, ok \in BOOLEAN : _get_steps_request(s, ok)
    \/ \E ok \in BOOLEAN : _get_steps_links(ok)
    \/ \E ok \in BOOLEAN : _initialize_steps(ok)
    \/ _run_steps
    \/ \E running \in SUBSET Uuids, ok \in BOOLEAN :
          _check_steps_dones(running, ok)
    \/ \E raising \in SUBSET Uuids : shutdown(raising)
    \/ \E outcome \in {"returned", "raised"} : _start_step(outcome)
    \/ \E raising \in SUBSET Uuids : _shutdown_steps(raising)
    \/ \E raising \in SUBSET Uuids : _cleanup_steps(raising)

NextSteps ==
    \/ \E p \in Plans : new_run(p)
    \/ ManagerStep
    \/ abort_steps
    \/ Wait

\* The pool is not part of this specification: one of its two starts.
InitSteps == InitPool /\ use_filters

SpecSteps == InitSteps /\ [][NextSteps]_vars

\* The tornado loop runs every coroutine that can go on.
FairSteps == SpecSteps /\ WF_vars(ManagerStep)

(***************************************************************************)
(* The completion predicate, instance by instance (SpecDone): the Runs of  *)
(* SpecSteps whose steps have no delay and no DNS name and may last up to  *)
(* the clock's end, where docker.is_running is answered from the           *)
(* instances of each collection and the containers they run.               *)
(***************************************************************************)

\* Variant: a collection that has instances counts as running.
AnyInstance(size, containers) == size > 0

\* Docker.is_running: any(results) over the running instances of the
\* collection, `containers` being those that run the step's container.
is_running(size, containers) ==
    \E i \in 1..size : i \in containers

PlansDone ==
    [Uuids -> [run_delay : {0}, run_max_time : 1..MaxTime, dns_name : {""}]]

\* The links _is_done asks docker about, and is answered True for.
Running(sizes, containers) ==
    {s \in _set_links :
        /\ step_record[s].started_at # None /\ ~links[s].finished
        /\ is_running(sizes[s], containers[s])}

NextDone ==
    \/ \E p \in PlansDone : new_run(p)
    \/ \E s \in Uuids, ok \in BOOLEAN : _get_steps_request(s, ok)
    \/ \E ok \in BOOLEAN : _get_steps_links(ok)
    \/ \E ok \in BOOLEAN : _initialize_steps(ok)
    \/ _run_steps
    \/ \E sizes \in [Uuids -> {0, MaxCount}],
          containers \in [Uuids -> {{}, {1}}], ok \in BOOLEAN :
          _check_steps_dones(Running(sizes, containers), ok)
    \/ \E raising \in SUBSET Uuids : shutdown(raising)
    \/ \E outcome \in {"returned", "raised"} : _start_step(outcome)
    \/ \E raising \in SUBSET Uuids : _shutdown_steps(raising)
    \/ \E raising \in SUBSET Uuids : _cleanup_steps(raising)
    \/ abort_steps
    \/ Wait

SpecDone == InitSteps /\ [][NextDone]_vars

(***************************************************************************)
(* Properties of the Run Manager (Spec).                                   *)
(***************************************************************************)

\* C1: across the manager's phases, aborts and DELETE requests, no write to
\* a Run's state replaces it with an earlier state: the row (and the
\* manager's object) only moves forward, and so does the handler's object.
C1_StateOnlyForward ==
    [][/\ state' >= state
       /\ handler_state' # handler_state => handler_state' >= state]_vars

\* A DELETE has written Completed on its own object while the Run was
\* Running, and the manager has since moved the Run to Terminating.
C1_Witness ==
    /\ handler_state = COMPLETED /\ http = 200 /\ run_exists
    /\ seen.running_abort
    /\ state = TERMINATING

\* C2: when start() has finished, on every path, the Run is Completed.
C2_EndsCompleted == pc = "done" => state = COMPLETED

\* C39: a Run is recorded aborted only if its run loop was left because the
\* abort flag was seen at the top of the loop: a Run whose loop was left
\* with every step started and finished is recorded with aborted = false,
\* also when an abort request arrives while _shutdown stops the steps.
C39_AbortedOnlyByLoop == aborted => seen.loop_abort

\* C40: if the abort flag is set before the run loop makes its first pass
\* (while _get_steps or _initialize is at work, or as _run is entered), no
\* step of the Run is ever started, and when start() has returned the Run
\* is Completed and recorded aborted.
C40_AbortBeforeFirstPass ==
    seen.early_abort
    => /\ \A s \in Uuids : ~links[s].started
       /\ pc = "done" => state = COMPLETED /\ aborted

\* C3: the abort flag set while the Run is Running: no scheduling pass
\* begins afterwards, and once start() has finished the Run is Completed,
\* every Step Link is finished, and the Run is recorded aborted.
C3_AbortCompletes ==
    /\ ~seen.late_pass
    /\ (pc = "done" /\ seen.running_abort /\ run_exists)
       => /\ state = COMPLETED
          /\ aborted
          /\ \A s \in Uuids : links[s].finished

(***************************************************************************)
(* Properties of the scheduling (SpecSteps, FairSteps).                    *)
(***************************************************************************)

Started(s) == step_record[s].started_at # None
Completed(s) == step_record[s].completed_at # None

\* s is started before t.
Before(s, t) ==
    \E i, j \in 1..Len(start_order) :
        i < j /\ start_order[i] = s /\ start_order[j] = t

\* C13: for every Step Record that started and completed,
\* R.started_at <= SR.started_at <= SR.completed_at <= R.completed_at, in
\* every reachable state; the last comparison is made once the Run has its
\* completed_at.
C13_TimestampsOrdered ==
    \A s \in Uuids :
        Started(s) /\ Completed(s)
        => /\ run.started_at # None
           /\ run.started_at <= step_record[s].started_at
           /\ step_record[s].started_at <= step_record[s].completed_at
           /\ run.completed_at # None
              => step_record[s].completed_at <= run.completed_at

\* A Run has ended Completed with a step that started after the Run,
\* completed after it started, and before the Run completed.
C13_Witness ==
    /\ pc = "done" /\ state = COMPLETED
    /\ \E s \in Uuids :
          /\ Started(s) /\ Completed(s)
          /\ run.started_at < step_record[s].started_at
          /\ step_record[s].started_at < step_record[s].completed_at
          /\ step_record[s].completed_at < run.completed_at

\* C14: a Step Record whose started_at is set has
\* started_at >= R.started_at + run_delay.
C14_NotBeforeDelay ==
    \A s \in Uuids :
        Started(s)
        => step_record[s].started_at >= run.started_at + plan[s].run_delay

\* A step with a delay has started exactly when its delay had elapsed, in
\* a Run that itself started late.
C14_Witness ==
    \E s \in Uuids :
        /\ plan[s].run_delay > 0 /\ run.started_at > 0
        /\ step_record[s].started_at = run.started_at + plan[s].run_delay

\* C34: once a Step Record's completed_at is set it is never written
\* again: no step of the manager changes a completed_at that is set.
C34_CompletedOnce ==
    [][\A s \in Uuids :
          step_record[s].completed_at # None
          => step_record'[s].completed_at = step_record[s].completed_at]_vars

\* C35: within one Run a step's start procedure is invoked at most once
\* and its containers are stopped at most once, over the passes, _shutdown
\* and _cleanup; and a pass stops a step only if the step is marked
\* started (its collection's flag and its record's started_at).
C35_StartStopOnce ==
    [][\A s \in Uuids :
          /\ Occurrences(start_order', s) <= 1
          /\ calls[s].stop # ""
             => /\ calls'[s].stop = calls[s].stop
                /\ calls'[s].by = calls[s].by
          /\ (calls[s].stop = "" /\ calls'[s].stop # ""
                                 /\ calls'[s].by = "pass")
             => links[s].started /\ Started(s)]_vars

\* One step was started and then stopped by a pass, and another that was
\* never started was stopped by _shutdown.
C35_Witness ==
    \E s, t \in Uuids :
        /\ Occurrences(start_order, s) = 1
        /\ calls[s].stop = "returned" /\ calls[s].by = "pass"
        /\ ~links[t].started /\ ~Started(t)
        /\ calls[t].stop = "returned" /\ calls[t].by = "shutdown"

\* The manager is in the run loop of _run.
InLoop == pc \in {"run", "check", "stops", "starts", "sleep"}

\* C38: while the helpers return the run loop ends.  A pass that comes to
\* its start candidates has every linked step that is due among them; a
\* pass made at or after started_at + run_max_time of a started step finds
\* it done; without abort the loop is left exactly when every link is
\* started and finished; and a manager in the loop leaves it, or the clock
\* of the model has run out.
C38_LoopTerminates ==
    /\ [][\A s \in _set_links :
            /\ (pc \in {"check", "stops"} /\ pc' \in {"starts", "sleep"}
                /\ step_record[s].started_at = None
                /\ now >= run.started_at + plan[s].run_delay)
               => s \in Range(pass_starts')
            /\ (pc = "check" /\ pc' \in {"stops", "sleep", "starts"}
                /\ step_record[s].started_at # None
                /\ now >= step_record[s].started_at + plan[s].run_max_time)
               => links[s].finished \/ s \in pass_dones']_vars
    /\ [][(pc \in {"run", "sleep"} /\ pc' # pc /\ ~abort)
          => (pc' = "shutdown"
              <=> \A s \in _set_links :
                     links[s].started /\ links[s].finished)]_vars
    /\ InLoop ~> (~InLoop \/ now = MaxTime)

\* The loop of a Run with a delayed step was left with no abort and no
\* exception, every step started and stopped by a pass.
C38_Witness ==
    /\ pc = "shutdown" /\ ~abort /\ ~raised
    /\ _set_links = Uuids
    /\ \E s \in Uuids : plan[s].run_delay > 0
    /\ \A s \in Uuids :
          /\ links[s].started /\ links[s].finished
          /\ calls[s].start = "returned" /\ calls[s].by = "pass"

\* C15: a Step Record whose completed_at is set and whose step ran its max
\* duration has completed_at - started_at <= run_max_time + one poll
\* interval, also while other steps of the Run still run.  Stated for the
\* Runs in which no wait for a helper took any time.
C15_CompletedWithinPoll ==
    \A s \in Uuids :
        ~slow /\ Completed(s) /\ calls[s].ran_max
        => step_record[s].completed_at - step_record[s].started_at
              <= plan[s].run_max_time + sleep_time

\* C16: for steps A and B with A.run_delay < B.run_delay that both start,
\* A.started_at <= B.started_at and A is started before B: in the same
\* pass in ascending run_delay, or in an earlier pass.
C16_StartsByDelay ==
    \A a, b \in Uuids :
        plan[a].run_delay < plan[b].run_delay /\ Started(a) /\ Started(b)
        => /\ step_record[a].started_at <= step_record[b].started_at
           /\ Before(a, b)

\* Two steps were due in the same pass, the later link with the lower
\* delay: it was started first.
C16_Witness ==
    /\ plan["s2"].run_delay < plan["s1"].run_delay
    /\ Started("s1") /\ Started("s2")
    /\ step_record["s1"].started_at = step_record["s2"].started_at
    /\ start_order = <<"s2", "s1">>

\* C17: the DNS map is append-only within a Run: an entry is never removed
\* or replaced by a later step start; and the map given to a step's
\* resolver holds only entries of steps started before it.
C17_DnsMapAppendOnly ==
    /\ [][\A n \in DnsNames : _dns_map[n] # "" => _dns_map'[n] = _dns_map[n]]_vars
    /\ [](\A s \in Uuids : \A n \in resolver[s] :
             \E t \in Uuids : plan[t].dns_name = n /\ Before(t, s))

\* C18: started_at is set iff the step's start call returned without
\* raising, completed_at is set iff the step's stop call returned, and
\* failed is set exactly when the start call raised.
C18_RecordFollowsCalls ==
    \A s \in Uuids :
        /\ Started(s) <=> calls[s].start = "returned"
        /\ Completed(s) <=> calls[s].stop = "returned"
        /\ step_record[s].failed <=> calls[s].start = "raised"

\* The start of step s raises in this step.
StartRaises(s) == calls[s].start = "" /\ calls'[s].start = "raised"

\* C19: when a step's start raises, its record gets failed = true (and its
\* started_at), the remaining candidates of the pass are still started and
\* the passes go on; a pass finds the failed step done as it does any
\* other, it is stopped, and a Run that ends has it finished.  The failed
\* step is finished in the end, or the clock of the model has run out.
C19_FailedStepIsDone ==
    /\ [][\A s \in Uuids :
            /\ StartRaises(s)
               => /\ step_record'[s].failed
                  /\ step_record'[s].started_at = now
                  /\ links'[s].started
                  /\ pass_starts' = Tail(pass_starts)
                  /\ pc' = IF pass_starts' = <<>> THEN "sleep" ELSE "starts"
            /\ (pc = "check" /\ pc' \in {"stops", "sleep", "starts"}
                /\ step_record[s].failed /\ s \in _set_links
                /\ should_stop(s))
               => links[s].finished \/ s \in pass_dones']_vars
    /\ [](\A s \in Uuids :
             pc = "done" /\ step_record[s].failed => links[s].finished)
    /\ (\E s \in Uuids : step_record[s].failed /\ ~links[s].finished)
          ~> \/ \A s \in Uuids : step_record[s].failed => links[s].finished
             \/ now = MaxTime

\* The first step's start raised, the second step was started in the same
\* pass all the same; a later pass found the failed step done and stopped
\* it, and the Run has ended Completed, before the clock ran out.
C19_Witness ==
    /\ pc = "done" /\ state = COMPLETED /\ ~abort /\ ~raised
    /\ now < MaxTime
    /\ \E s, t \in Uuids :
          /\ start_order = <<s, t>>
          /\ step_record[s].failed /\ calls[t].start = "returned"
          /\ step_record[s].started_at = step_record[t].started_at
          /\ links[s].finished /\ calls[s].by = "pass" /\ Completed(s)

\* C20: if a setup step raises while the collections are obtained and the
\* links built (a request fails after others succeeded, or the building of
\* the links fails), every collection acquired so far is released and the
\* error is re-raised, so that _cleanup runs on the exception path: start()
\* never goes on without its links, and when it has returned after a
\* failed request the pool has every collection back.
C20_ReleasedAndReraised ==
    /\ pc \in {"setup", "run", "check", "stops", "starts", "sleep", "shutdown"}
       => _set_links = Uuids
    /\ (pc = "done" /\ \E s \in Uuids : requests[s] = "raised") => held = {}

\* C21: _cleanup releases every collection of the Run on the normal and on
\* the exception path, also when a _stop_step raises, drops the Step Links
\* afterwards and never raises: once start() has returned, the manager has
\* no link left and the pool has every collection it handed to the Run.
C21_CleanupReleasesAll ==
    pc = "done" => _set_links = {} /\ held = {}

(***************************************************************************)
(* Properties of the DELETE and abort requests (Spec).                     *)
(***************************************************************************)

\* All of the Run and its manager but the HTTP status.
ButHttp == <<pc, state, run_exists, abort, aborted, links, _set_links, raised,
             in_runs, handler_state, seen>>

C23_AbortOnlyLive ==
    [][/\ ~in_runs => abort' = abort
       /\ (~abort /\ abort') => pc \notin {"idle", "done"}
       /\ (abort /\ http' # http) => http' # 200]_vars

(***************************************************************************)
(* One EC2Collection (SpecColl).  The manager takes the collection through *)
(* _initialize (wait_for_running, docker.setup_collection, docker.wait),   *)
(* _start_step (the sidecar, the DNS resolver, the step container) and     *)
(* _stop_step.  A coroutine that is launched and not awaited goes on       *)
(* whenever the io loop runs it.                                           *)
(***************************************************************************)
\* EC2Collection.pending_instances
pending_instances(q, st) == SelectSeq(q, LAMBDA i : st[i] = "pending")

\* EC2Collection.dead_instances
dead_instances(q, st, flagged) ==
    SelectSeq(q, LAMBDA i : st[i] \notin {"pending", "running"} \/ i \in flagged)

\* EC2Collection.running_instances
running_instances(q, st) == SelectSeq(q, LAMBDA i : st[i] = "running")

\* Variant: the instances that are still pending are kept.
DeadOnly(q, st, flagged) == dead_instances(q, st, flagged)

\* wait_for_running: self.dead_instances() + self.pending_instances()
not_running(q, st, flagged) ==
    dead_instances(q, st, flagged) \o pending_instances(q, st)

\* list.remove(x): q without its first x.
RECURSIVE list_remove(_, _)
list_remove(q, x) ==
    IF q = <<>> THEN <<>>
    ELSE IF Head(q) = x THEN Tail(q)
    ELSE <<Head(q)>> \o list_remove(Tail(q), x)

\* Variant: the instances that stay are put back in reverse.
RECURSIVE RemoveReversed(_, _)
RemoveReversed(q, subset) ==
    IF subset = <<>> THEN [k \in 1..Len(q) |-> q[Len(q) + 1 - k]]
    ELSE RemoveReversed(list_remove(q, Head(subset)), Tail(subset))

\* remove_instances: for inst in ec2_instances: self.instances.remove(inst)
RECURSIVE RemoveAll(_, _)
RemoveAll(q, subset) ==
    IF subset = <<>> THEN q
    ELSE RemoveAll(list_remove(q, Head(subset)), Tail(subset))

\* A call of remove_instances that has got to its first await.
Removal(subset) ==
    [subset |-> subset, at |-> "detag", detag |-> "", terminate |-> ""]

\* wait_for_running: `while time.time() < end_time and pending` is over.
WaitOver ==
    pending_instances(coll_instances, inst_state) = <<>> \/ polls = MaxPolls

\* wait_for_running, one round of its loop: instance.update() of every
\* pending instance (a failed update leaves the state as it was), then
\* wait(interval) if some are still pending.
wait_for_running_poll(update) ==
    /\ cpc = "wait" /\ ~WaitOver
    /\ inst_state' = [i \in DOMAIN inst_state |->
                         IF inst_state[i] = "pending" THEN update[i]
                         ELSE inst_state[i]]
    /\ polls' = IF pending_instances(coll_instances, inst_state') # <<>>
                THEN polls + 1 ELSE polls
    /\ UNCHANGED <<coll_instances, nonresponsive, coll, cpc, ready, removals,
                   iaas, trace, setup_seen, poolvars, runvars, stepvars, tagvars, connvars>>

\* wait_for_running, after its loop:
\*     dead = self.dead_instances() + self.pending_instances()
\*     gen.convert_yielded(self.remove_instances(dead)); return True
\* convert_yielded either runs the coroutine up to its first await at once
\* or hands it to the io loop, by the tornado the broker is installed with
\* (setup.py asks for any); the caller, RunManager._initialize, goes on
\* from the io loop after it.
wait_for_running_return(at_once) ==
    /\ cpc = "wait" /\ WaitOver
    /\ LET dead == not_running(coll_instances, inst_state, nonresponsive)
       IN  IF at_once
           THEN /\ coll_instances' = RemoveAll(coll_instances, dead)
                /\ removals' = IF dead = <<>> THEN removals
                               ELSE Append(removals, Removal(dead))
                /\ ready' = <<"_initialize">>
           ELSE /\ coll_instances' = coll_instances
                /\ removals' = Append(removals,
                                  [Removal(dead) EXCEPT !.at = "queued"])
                /\ ready' = <<"remove_instances", "_initialize">>
    /\ cpc' = "returned"
    /\ trace' = Append(trace, [call |-> "wait_for_running",
                               ended |-> "returned"])
    /\ UNCHANGED <<inst_state, nonresponsive, coll, polls, iaas, setup_seen,
                   poolvars, runvars, stepvars, tagvars, connvars>>

\* The io loop runs the remove_instances it was handed, up to its first
\* await.
loop_remove_instances ==
    /\ ready # <<>> /\ Head(ready) = "remove_instances"
    /\ LET k == Len(removals)
           subset == removals[k].subset
       IN  /\ coll_instances' = RemoveAll(coll_instances, subset)
           /\ removals' = [removals EXCEPT ![k].at =
                              IF subset = <<>> THEN "done" ELSE "detag"]
    /\ ready' = Tail(ready)
    /\ UNCHANGED <<inst_state, nonresponsive, coll, cpc, polls, iaas, trace,
                   setup_seen, poolvars, runvars, stepvars, tagvars, connvars>>

\* remove_instances: await self.execute(self.conn.create_tags, ...) inside
\* try/except Exception.
remove_instances_detag(k, ok) ==
    /\ k \in 1..Len(removals) /\ removals[k].at = "detag"
    /\ removals' = [removals EXCEPT ![k].at = "terminate",
                       ![k].detag = IF ok THEN "returned" ELSE "raised"]
    /\ iaas' = IF ok THEN [iaas EXCEPT !.detagged =
                              @ \cup Range(removals[k].subset)]
               ELSE iaas
    /\ UNCHANGED <<coll_instances, inst_state, nonresponsive, coll, cpc, polls,
                   ready, trace, setup_seen, poolvars, runvars, stepvars, tagvars, connvars>>

\* remove_instances: await self.execute(self.conn.terminate_instances, ...)
\* inside try/except Exception; the coroutine returns.
remove_instances_terminate(k, ok) ==
    /\ k \in 1..Len(removals) /\ removals[k].at = "terminate"
    /\ removals' = [removals EXCEPT ![k].at = "done",
                       ![k].terminate = IF ok THEN "returned" ELSE "raised"]
    /\ iaas' = IF ok THEN [iaas EXCEPT !.terminated =
                              @ \cup Range(removals[k].subset)]
               ELSE iaas
    /\ UNCHANGED <<coll_instances, inst_state, nonresponsive, coll, cpc, polls,
                   ready, trace, setup_seen, poolvars, runvars, stepvars, tagvars, connvars>>

\* RunManager._initialize goes on: docker.setup_collection maps over
\* collection.instances.
setup_collection ==
    /\ cpc = "returned"
    /\ ready # <<>> /\ Head(ready) = "_initialize"
    /\ ready' = Tail(ready)
    /\ setup_seen' = Range(coll_instances)
    /\ cpc' = "setup"
    /\ UNCHANGED <<coll_instances, inst_state, nonresponsive, coll, polls,
                   removals, iaas, trace, poolvars, runvars, stepvars, tagvars, connvars>>

\* Docker.wait: the instances whose docker has not responded by the timeout
\* are pruned, await collection.remove_instances(not_responded).
docker_wait(responded) ==
    /\ cpc = "setup"
    /\ responded \subseteq Range(coll_instances)
    /\ LET not_responded == SelectSeq(coll_instances, LAMBDA i : i \notin responded)
       IN  /\ coll_instances' = RemoveAll(coll_instances, not_responded)
           /\ removals' = IF not_responded = <<>> THEN removals
                          ELSE Append(removals, Removal(not_responded))
           /\ cpc' = IF not_responded = <<>> THEN "ready" ELSE "pruning"
           /\ trace' = IF not_responded = <<>>
                       THEN Append(trace, [call |-> "docker.wait",
                                           ended |-> "returned"])
                       ELSE trace
    /\ UNCHANGED <<inst_state, nonresponsive, coll, polls, ready, iaas,
                   setup_seen, poolvars, runvars, stepvars, tagvars, connvars>>

\* Docker.wait returns when its remove_instances has.
docker_wait_return ==
    /\ cpc = "pruning" /\ removals[Len(removals)].at = "done"
    /\ cpc' = "ready"
    /\ trace' = Append(trace, [call |-> "docker.wait", ended |-> "returned"])
    /\ UNCHANGED <<coll_instances, inst_state, nonresponsive, coll, polls, ready,
                   removals, iaas, setup_seen, poolvars, runvars, stepvars, tagvars, connvars>>

\* Docker.run_containers: collection.map(run) where run has
\*     try: return docker.safe_run_container(...)
\*     except Exception: return False
\* The results, instance by instance: FALSE for one of `failing`.
run_results(q, failing) == [k \in 1..Len(q) |-> q[k] \notin failing]

\* What run's except clause leaves of state.nonresponsive.
run_flags(flagged, failing) == flagged

\* A helper call of the manager that went over the collection.
Called(call, ended) == Append(trace, [call |-> call, ended |-> ended])

\* _start_step: ec2_collection.started = True, then ssh.reload_sysctl, which
\* raises when the command fails on an instance; that ends _start_step.
reload_sysctl(ok) ==
    /\ cpc = "ready"
    /\ coll' = [coll EXCEPT !.started = TRUE]
    /\ trace' = Called("reload_sysctl", IF ok THEN "returned" ELSE "raised")
    /\ cpc' = IF ok THEN "sidecar" ELSE "running"
    /\ UNCHANGED <<coll_instances, inst_state, nonresponsive, polls, ready,
                   removals, iaas, setup_seen, poolvars, runvars, stepvars,
                   tagvars, connvars>>

\* Variant: the DNS resolver is never started.
NoResolver(with_dns) == "testers"

\* _start_step, after heka.start: if setlink.ec2_collection.local_dns:
AfterSidecar(with_dns) == IF with_dns THEN "dns" ELSE "testers"

\* _start_step: heka.start, the sidecar, through docker.run_containers.
sidecar_start(failing) ==
    /\ cpc = "sidecar"
    /\ failing \subseteq Range(coll_instances)
    /\ nonresponsive' = run_flags(nonresponsive, failing)
    /\ trace' = Called("sidecar.start", "returned")
    /\ cpc' = AfterSidecar(coll.local_dns)
    /\ UNCHANGED <<coll_instances, inst_state, coll, polls, ready, removals,
                   iaas, setup_seen, poolvars, runvars, stepvars, tagvars, connvars>>

\* _start_step: dns.start if collection.local_dns.  DNSMasq.start reads
\* response["NetworkSettings"]["IPAddress"] of every result, and a result
\* of False has none: the TypeError ends _start_step.
dns_start(failing) ==
    /\ cpc = "dns"
    /\ failing \subseteq Range(coll_instances)
    /\ nonresponsive' = run_flags(nonresponsive, failing)
    /\ LET results == run_results(coll_instances, failing)
           raises == \E k \in 1..Len(results) : ~results[k]
       IN  /\ trace' = Called("dns.start",
                              IF raises THEN "raised" ELSE "returned")
           /\ cpc' = IF raises THEN "running" ELSE "testers"
    /\ UNCHANGED <<coll_instances, inst_state, coll, polls, ready, removals,
                   iaas, setup_seen, poolvars, runvars, stepvars, tagvars, connvars>>

\* _start_step: docker.run_containers of the step container.
run_containers(failing) ==
    /\ cpc = "testers"
    /\ failing \subseteq Range(coll_instances)
    /\ nonresponsive' = run_flags(nonresponsive, failing)
    /\ trace' = Called("run_containers", "returned")
    /\ cpc' = "running"
    /\ UNCHANGED <<coll_instances, inst_state, coll, polls, ready, removals,
                   iaas, setup_seen, poolvars, runvars, stepvars, tagvars, connvars>>

\* Docker.stop_containers: collection.map(stop) where stop has
\*     except Exception: instance.state.nonresponsive = True
StopFanOut(call, failing, next) ==
    /\ failing \subseteq Range(coll_instances)
    /\ nonresponsive' = nonresponsive \cup failing
    /\ trace' = Called(call, "returned")
    /\ cpc' = next
    /\ UNCHANGED <<coll_instances, inst_state, polls, ready, removals, iaas,
                   setup_seen, poolvars, runvars, stepvars, tagvars, connvars>>

\* _stop_step: ec2_collection.finished = True and stop of the step
\* container.
stop_containers(failing) ==
    /\ cpc = "running" /\ ~coll.finished
    /\ coll' = [coll EXCEPT !.finished = TRUE]
    /\ StopFanOut("stop_containers", failing, "stop_sidecar")

\* _stop_step: heka.stop, the sidecar.
sidecar_stop(failing) ==
    /\ cpc = "stop_sidecar"
    /\ coll' = coll
    /\ StopFanOut("sidecar.stop", failing,
                  IF coll.local_dns THEN "stop_dns" ELSE "prune")

\* _stop_step: dns.stop if collection.local_dns.
dns_stop(failing) ==
    /\ cpc = "stop_dns"
    /\ coll' = coll
    /\ StopFanOut("dns.stop", failing, "prune")

\* _stop_step, its last statement:
\*     setlink.ec2_collection.remove_dead_instances()
\* remove_dead_instances is an `async def` and the coroutine object the call
\* makes is neither yielded nor handed to the io loop: none of its body
\* runs.  _stop_step returns.
remove_dead_instances_dropped ==
    /\ cpc = "prune"
    /\ trace' = Called("remove_dead_instances", "dropped")
    /\ cpc' = "stopped"
    /\ UNCHANGED <<coll_instances, inst_state, nonresponsive, coll, polls,
                   ready, removals, iaas, setup_seen, poolvars, runvars,
                   stepvars, tagvars, connvars>>

\* RunManager._cleanup after the stops: pool.release_instances(collection)
\* puts the instances the collection holds at the end of their region's
\* free list (the tags are cleared in the IaaS first).
cleanup_release ==
    /\ cpc = "stopped"
    /\ _instances' = IF coll_instances = <<>> THEN _instances
                     ELSE [_instances EXCEPT ![AWS_REGIONS[1]] =
                              @ \o coll_instances]
    /\ iaas' = [iaas EXCEPT !.detagged = @ \cup Range(coll_instances)]
    /\ cpc' = "released"
    /\ trace' = Called("release_instances", "returned")
    /\ UNCHANGED <<fleet, events, use_filters, _recovered, collections, last,
                   released, coll_instances, inst_state, nonresponsive, coll,
                   polls, ready, removals, setup_seen, runvars, stepvars,
                   tagvars, connvars>>

\* request_instances has made the collection: EC2Collection.__init__ with
\* at least one instance (ThreadPoolExecutor(0) raises), each pending or
\* running; _get_steps has set its local_dns.
InitColl ==
    /\ PoolEmpty
    /\ RunIdle
    /\ StepsIdle
    /\ \E n \in 1..MaxSize :
          /\ coll_instances = [k \in 1..n |-> k]
          /\ inst_state \in [1..n -> {"pending", "running"}]
    /\ nonresponsive = {}
    /\ coll \in [started : {FALSE}, finished : {FALSE}, local_dns : BOOLEAN]
    /\ cpc = "wait"
    /\ polls = 0
    /\ ready = <<>>
    /\ removals = <<>>
    /\ iaas = [detagged |-> {}, terminated |-> {}]
    /\ trace = <<>>
    /\ setup_seen = {}
    /\ TagIdle
    /\ ConnIdle

NextColl ==
    \/ \E update \in [DOMAIN inst_state -> {"pending", "running", "terminated"}] :
          wait_for_running_poll(update)
    \/ \E at_once \in BOOLEAN : wait_for_running_return(at_once)
    \/ loop_remove_instances
    \/ \E k \in 1..MaxSize, ok \in BOOLEAN : remove_instances_detag(k, ok)
    \/ \E k \in 1..MaxSize, ok \in BOOLEAN : remove_instances_terminate(k, ok)
    \/ setup_collection
    \/ \E responded \in SUBSET (1..MaxSize) : docker_wait(responded)
    \/ docker_wait_return
    \/ \E ok \in BOOLEAN : reload_sysctl(ok)
    \/ \E failing \in SUBSET (1..MaxSize) : sidecar_start(failing)
    \/ \E failing \in SUBSET (1..MaxSize) : dns_start(failing)
    \/ \E failing \in SUBSET (1..MaxSize) : run_containers(failing)
    \/ \E failing \in SUBSET (1..MaxSize) : stop_containers(failing)
    \/ \E failing \in SUBSET (1..MaxSize) : sidecar_stop(failing)
    \/ \E failing \in SUBSET (1..MaxSize) : dns_stop(failing)
    \/ remove_dead_instances_dropped
    \/ cleanup_release

SpecColl == InitColl /\ [][NextColl]_vars

(***************************************************************************)
(* request_instances tagging its instances (SpecTag): one tag_instance     *)
(* coroutine per instance, all under gen.multi.                            *)
(***************************************************************************)
\* tag_instance: if retries > 5: raise
GivesUp(retries) == retries > MaxRetries

\* tag_instance, one turn of `while True` up to the wait:
\*     try: await self._run_in_executor(conn.create_tags, ...); break
\*     except:
\*         if retries > 5: raise
\*     retries += 1
create_tags(i, ok) ==
    /\ i \in DOMAIN tagging /\ tagging[i].at = "try"
    /\ tagging' = [tagging EXCEPT
          ![i].calls = @ + 1,
          ![i].at = IF ok THEN "done"
                    ELSE IF GivesUp(tagging[i].retries) THEN "raised"
                    ELSE "wait",
          ![i].retries = IF ok \/ GivesUp(tagging[i].retries) THEN @
                         ELSE @ + 1]
    /\ UNCHANGED <<tagged, poolvars, runvars, stepvars, collvars, connvars>>

\* tag_instance: await gen.Task(self._loop.add_timeout, time.time() + 1)
tag_wait(i) ==
    /\ i \in DOMAIN tagging /\ tagging[i].at = "wait"
    /\ tagging' = [tagging EXCEPT ![i].at = "try", ![i].waited = @ + TagWait]
    /\ UNCHANGED <<tagged, poolvars, runvars, stepvars, collvars, connvars>>

\* await gen.multi([tag_instance(x) for x in instances]): every coroutine
\* is over; if one raised, request_instances raises what it raised.
tag_multi ==
    /\ tagged = "pending"
    /\ \A i \in DOMAIN tagging : tagging[i].at \in {"done", "raised"}
    /\ tagged' = IF \E i \in DOMAIN tagging : tagging[i].at = "raised"
                 THEN "raised" ELSE "returned"
    /\ UNCHANGED <<tagging, poolvars, runvars, stepvars, collvars, connvars>>

\* use_filters is set and request_instances has its instances.
InitTag ==
    /\ PoolEmpty
    /\ RunIdle
    /\ StepsIdle
    /\ CollIdle
    /\ \E n \in 1..MaxCount :
          tagging = [i \in 1..n |->
                        [at |-> "try", retries |-> 0, calls |-> 0,
                         waited |-> 0]]
    /\ tagged = "pending"
    /\ ConnIdle

NextTag ==
    \/ \E i \in 1..MaxCount, ok \in BOOLEAN : create_tags(i, ok)
    \/ \E i \in 1..MaxCount : tag_wait(i)
    \/ tag_multi

SpecTag == InitTag /\ [][NextTag]_vars

(***************************************************************************)
(* The pool's connections (SpecConn).  _recover_region (broker start) and  *)
(* request_instances (one per step of _get_steps, all under one yield)     *)
(* call _region_conn; nothing waits for pool.ready.                        *)
(***************************************************************************)
\* _region_conn, up to its await:
\*     if region in self._conns: return self._conns[region]
\*     conn = await self._run_in_executor(connect_to_region, region, ...)
_region_conn(c, region) ==
    /\ c \in DOMAIN conn_calls /\ conn_calls[c].at = "idle"
    /\ conn_calls' = [conn_calls EXCEPT ![c] =
          IF _conns[region] # 0
          THEN [at |-> "returned", region |-> region, conn |-> _conns[region]]
          ELSE [at |-> "connecting", region |-> region, conn |-> 0]]
    /\ UNCHANGED <<_conns, connected, poolvars, runvars, stepvars, collvars,
                   tagvars>>

\* _region_conn, after its await: connect_to_region has made a connection
\* (or raised);  self._conns[region] = conn; return conn
_region_conn_connected(c, ok) ==
    /\ c \in DOMAIN conn_calls /\ conn_calls[c].at = "connecting"
    /\ LET region == conn_calls[c].region
           conn == connected[region] + 1
       IN  IF ok
           THEN /\ connected' = [connected EXCEPT ![region] = conn]
                /\ _conns' = [_conns EXCEPT ![region] = conn]
                /\ conn_calls' = [conn_calls EXCEPT ![c].at = "returned",
                                                    ![c].conn = conn]
           ELSE /\ conn_calls' = [conn_calls EXCEPT ![c].at = "raised"]
                /\ UNCHANGED <<connected, _conns>>
    /\ UNCHANGED <<poolvars, runvars, stepvars, collvars, tagvars>>

InitConn ==
    /\ PoolEmpty
    /\ RunIdle
    /\ StepsIdle
    /\ CollIdle
    /\ TagIdle
    /\ _conns = [r \in Regions |-> 0]
    /\ connected = [r \in Regions |-> 0]
    /\ conn_calls = [c \in 1..MaxCallers |->
                        [at |-> "idle", region |-> "", conn |-> 0]]

NextConn ==
    \/ \E c \in 1..MaxCallers, region \in Regions : _region_conn(c, region)
    \/ \E c \in 1..MaxCallers, ok \in BOOLEAN : _region_conn_connected(c, ok)

SpecConn == InitConn /\ [][NextConn]_vars

(***************************************************************************)
(* Properties of the collection (SpecColl).                                *)
(***************************************************************************)
\* The calls _stop_step has made, in order.
StopTrace ==
    LET made == SelectSeq(trace, LAMBDA c :
                    c.call \in {"stop_containers", "sidecar.stop", "dns.stop",
                                "remove_dead_instances"})
    IN  [k \in 1..Len(made) |-> made[k].call]

\* C26: the stop procedure of a Step Link stops the step container, then
\* the sidecars, then the local DNS resolver if it was started, then prunes
\* the dead instances; when it has returned, the Collection holds no dead
\* instance (none in a state other than pending and running, none flagged
\* nonresponsive).
C26_StopPrunesDead ==
    cpc = "stopped" =>
        /\ StopTrace = IF coll.local_dns
                       THEN <<"stop_containers", "sidecar.stop", "dns.stop",
                              "remove_dead_instances">>
                       ELSE <<"stop_containers", "sidecar.stop",
                              "remove_dead_instances">>
        /\ dead_instances(coll_instances, inst_state, nonresponsive) = <<>>

\* C27: when wait_for_running has returned and RunManager._initialize goes
\* on, every instance that was still pending or in a terminal state is out
\* of the Collection: docker.setup_collection, the next step of
\* _initialize, goes over running instances only, and over every one of
\* them, although the remove_instances that evicts the others was launched
\* and not awaited.
C27_SetupSeesRunning ==
    /\ (cpc = "returned" /\ ready # <<>> /\ Head(ready) = "_initialize")
        => \A i \in Range(coll_instances) : inst_state[i] = "running"
    /\ cpc \notin {"wait", "returned"}
        => setup_seen = {i \in DOMAIN inst_state : inst_state[i] = "running"}

\* docker.setup_collection has gone over the collection while the
\* remove_instances of wait_for_running, which took out an instance still
\* pending at the timeout, is not over.
C27_Witness ==
    /\ cpc = "setup" /\ setup_seen # {}
    /\ removals # <<>> /\ removals[1].at \in {"detag", "terminate"}
    /\ \E i \in Range(removals[1].subset) : inst_state[i] = "pending"

\* C28: remove_instances(subset) takes every instance of subset out of the
\* Collection and leaves the others in their order; whether the create_tags
\* call that clears the tags or the terminate_instances call returns or
\* raises, the coroutine goes on to its end and the Collection stays as it
\* is.
C28_RemoveBestEffort ==
    [][\A k \in 1..Len(removals') :
          LET r == removals'[k]
              begun == k > Len(removals) \/ removals[k].at = "queued"
          IN  /\ (r.at # "queued")
                  => Range(r.subset) \cap Range(coll_instances') = {}
              /\ (begun /\ r.at # "queued")
                  => coll_instances' = SelectSeq(coll_instances,
                         LAMBDA i : i \notin Range(r.subset))
              /\ (~begun /\ removals[k].at = "detag" /\ r # removals[k])
                  => /\ r.at = "terminate"
                     /\ coll_instances' = coll_instances
              /\ (~begun /\ removals[k].at = "terminate" /\ r # removals[k])
                  => /\ r.at = "done"
                     /\ coll_instances' = coll_instances]_vars

\* A remove_instances whose two IaaS calls raised is over, and two
\* instances are left in the Collection.
C28_Witness ==
    \E k \in 1..Len(removals) :
        /\ removals[k].at = "done"
        /\ removals[k].detag = "raised" /\ removals[k].terminate = "raised"
        /\ Len(coll_instances) >= 2
        /\ Range(removals[k].subset) \cap Range(coll_instances) = {}

\* C29: in the run_containers fan-out an exception raised while the
\* container is started on an instance flags that instance nonresponsive
\* and does not fail the fan-out: the call returns normally; so for the
\* step container, and for the sidecar and DNS resolver starts that go
\* through run_containers.
C29_StartFlagsFailing ==
    [][(cpc \in {"sidecar", "dns", "testers"} /\ cpc' # cpc)
       => \A failing \in SUBSET Range(coll_instances) :
             (sidecar_start(failing) \/ dns_start(failing)
                                    \/ run_containers(failing))
             => /\ trace'[Len(trace')].ended = "returned"
                /\ failing \subseteq nonresponsive']_vars

\* C37: release_instances puts no dead instance into a free list: an
\* instance that left the pending and running states or was flagged
\* nonresponsive during the Run is out of its Collection before the Run
\* Manager releases the Collection, so that a later request_instances is
\* not handed it.
C37_NoDeadReleased ==
    cpc = "released" =>
        \A r \in Regions : \A i \in Range(_instances[r]) :
            /\ inst_state[i] \in {"pending", "running"}
            /\ i \notin nonresponsive

\* The calls _start_step has made, in order.
StartTrace ==
    SelectSeq(trace, LAMBDA c :
        c.call \in {"reload_sysctl", "sidecar.start", "dns.start",
                    "run_containers"})

\* C32: the start procedure of a Step Link is strictly sequential: the
\* Collection is marked started, then the kernel parameters are reloaded,
\* then the sidecars are started, then the local DNS resolver if the
\* Collection is flagged local_dns, and the step's own container only
\* after all of these have returned.
C32_StartSequential ==
    LET order == IF coll.local_dns
                 THEN <<"reload_sysctl", "sidecar.start", "dns.start",
                        "run_containers">>
                 ELSE <<"reload_sysctl", "sidecar.start", "run_containers">>
    IN  /\ Len(StartTrace) <= Len(order)
        /\ \A k \in 1..Len(StartTrace) :
              /\ StartTrace[k].call = order[k]
              /\ k < Len(StartTrace) => StartTrace[k].ended = "returned"
        /\ StartTrace # <<>> => coll.started
        /\ cpc \in {"sidecar", "dns", "testers"} => coll.started

\* The step container of a collection with a local DNS resolver has been
\* started, after the three calls before it.
C32_Witness ==
    /\ coll.local_dns /\ cpc = "running"
    /\ Len(StartTrace) = 4
    /\ StartTrace[4].call = "run_containers"

(***************************************************************************)
(* Properties of the completion predicate (SpecDone).                      *)
(***************************************************************************)

\* is_done as the claim has it, for a link whose collection holds
\* `instances` instances of which `containers` run the step's container.
C25_Done(s, size, containers) ==
    IF step_record[s].started_at = None THEN FALSE
    ELSE IF links[s].finished THEN TRUE
    ELSE IF \A i \in 1..size : i \notin containers THEN TRUE
    ELSE now >= step_record[s].started_at + plan[s].run_max_time

\* C25: is_done of a Step Link is false when the Step Record has no
\* started_at; true when the collection is finished; true when no instance
\* of the collection runs the step's container, so for a collection of
\* zero instances; and else should_stop(): now >= started_at +
\* run_max_time.  A pass finds done exactly the links it holds for.
C25_IsDone ==
    [][(pc = "check" /\ pc' \in {"stops", "starts", "sleep"})
       => \A sizes \in [Uuids -> {0, MaxCount}],
             containers \in [Uuids -> {{}, {1}}] :
             _check_steps_dones(Running(sizes, containers), TRUE)
             => \A s \in _set_links :
                   s \in pass_dones' <=> C25_Done(s, sizes[s], containers[s])]_vars

\* A step was found done by the first pass after its start, a poll
\* interval later and before its run_max_time had gone by: no instance ran
\* its container.
C25_Witness ==
    \E s \in Uuids :
        /\ ~slow /\ calls[s].by = "pass" /\ ~calls[s].ran_max
        /\ step_record[s].completed_at = step_record[s].started_at + sleep_time
        /\ plan[s].run_max_time > sleep_time

(***************************************************************************)
(* Properties of the tagging (SpecTag).                                    *)
(***************************************************************************)
\* C30: request_instances makes at most 6 create_tags attempts for an
\* instance, with a wait of 1 second between two attempts, and then lets
\* the exception of the last attempt out; a success ends the retries for
\* that instance.
C30_SixAttempts ==
    \A i \in DOMAIN tagging :
        /\ tagging[i].calls <= 6
        /\ tagging[i].at = "raised" => tagged # "returned"
        /\ tagging[i].at \in {"done", "raised"}
            => tagging[i].waited = (tagging[i].calls - 1) * TagWait

(***************************************************************************)
(* Properties of the connections (SpecConn).                               *)
(***************************************************************************)
\* C31: connection creation is single-flight per region: of the callers of
\* _region_conn for one region, one makes the connection, no second
\* connection is made for that region, and every caller gets that one.
C31_SingleFlight ==
    /\ \A r \in Regions : connected[r] <= 1
    /\ \A c, d \in DOMAIN conn_calls :
          (/\ conn_calls[c].at = "returned" /\ conn_calls[d].at = "returned"
           /\ conn_calls[c].region = conn_calls[d].region)
          => conn_calls[c].conn = conn_calls[d].conn

====
